---------------------------- MODULE Spec2Model ----------------------------
(***************************************************************************)
(* A model of the Pokedex backend: the cache tables (pokemon,              *)
(* pokemonSpecies, pokemonTypes), the favorites table, the user documents, *)
(* the internal mutations that write the cache, the fetch action that      *)
(* drives them, and the public queries and mutations.                      *)
(*                                                                         *)
(* A table is a sequence of rows in creation order, which is the order an  *)
(* index scan returns rows of equal key.  A Convex query or mutation is    *)
(* one transaction, so each is one atomic step; an action (the fetcher)    *)
(* is not, and is modelled step by step, one step per await that touches   *)
(* the store or the upstream API.                                          *)
(*                                                                         *)
(* A JavaScript string is a sequence of one-character strings, so that     *)
(* toLowerCase, trim, includes and Number.toString are computed and not    *)
(* assumed.                                                                *)
(***************************************************************************)
EXTENDS Integers, Sequences, FiniteSets, TLC

VARIABLES
    pokemon,          \* table "pokemon"
    pokemonSpecies,   \* table "pokemonSpecies"
    pokemonTypes,     \* table "pokemonTypes"
    favorites,        \* table "favorites"
    users,            \* table "users": user id -> document
    call,             \* the running fetchAndCachePokemon calls
    task,             \* per call, the per-id async functions of its batch
    nCalls,           \* number of fetch calls started so far
    hisui,            \* the running fetchHisuiPokemon call and its batch
    lastOp,           \* the request being answered and its response
    search,           \* the PokemonSearch component of a client
    page              \* the Pokedex page of that client

vars == <<pokemon, pokemonSpecies, pokemonTypes, favorites, users,
          call, task, nCalls, hisui, lastOp, search, page>>

cacheVars == <<pokemon, pokemonSpecies, pokemonTypes>>
fetchVars == <<call, task, nCalls, hisui>>
favVars   == <<favorites, users>>
uiVars    == <<search, page>>

\* JavaScript null / undefined (an absent optional argument).
NULL == [null |-> TRUE]

-----------------------------------------------------------------------------
(* Strings *)

UpperChars == <<"A","B","C","D","E","F","G","H","I","J","K","L","M",
                "N","O","P","Q","R","S","T","U","V","W","X","Y","Z">>
LowerChars == <<"a","b","c","d","e","f","g","h","i","j","k","l","m",
                "n","o","p","q","r","s","t","u","v","w","x","y","z">>

LowerChar(c) ==
    IF \E i \in 1..Len(UpperChars) : UpperChars[i] = c
    THEN LowerChars[CHOOSE i \in 1..Len(UpperChars) : UpperChars[i] = c]
    ELSE c

\* String.prototype.toLowerCase
toLowerCase(s) == [i \in 1..Len(s) |-> LowerChar(s[i])]

\* String.prototype.includes
includes(s, q) ==
    \E i \in 0..(Len(s) - Len(q)) : SubSeq(s, i + 1, i + Len(q)) = q

\* String.prototype.trim
RECURSIVE trimStart(_)
trimStart(s) ==
    IF s # <<>> /\ Head(s) = " " THEN trimStart(Tail(s)) ELSE s

RECURSIVE trimEnd(_)
trimEnd(s) ==
    IF s # <<>> /\ s[Len(s)] = " " THEN trimEnd(SubSeq(s, 1, Len(s) - 1)) ELSE s

trim(s) == trimEnd(trimStart(s))

Digits == <<"0","1","2","3","4","5","6","7","8","9">>

\* Number.prototype.toString of a non-negative integer
RECURSIVE toString(_)
toString(n) ==
    IF n < 10 THEN <<Digits[n + 1]>>
    ELSE toString(n \div 10) \o <<Digits[(n % 10) + 1]>>

-----------------------------------------------------------------------------
(* Sequences as arrays *)

\* Array.prototype.slice(start, end) for 0 <= start
slice(a, start, end) ==
    SubSeq(a, start + 1, IF end < Len(a) THEN end ELSE Len(a))

Min(S) == CHOOSE x \in S : \A y \in S : x <= y

Range(a) == {a[i] : i \in 1..Len(a)}

\* An optional argument f is given with a value of S, or is left out.
OptionalArg(f, S) == {<<>>} \cup {[x \in {f} |-> v] : v \in S}

\* The union of two argument records with disjoint fields.
Merge(a, b) ==
    [f \in DOMAIN a \cup DOMAIN b |-> IF f \in DOMAIN a THEN a[f] ELSE b[f]]

-----------------------------------------------------------------------------
(* Names used by the upstream API *)

fire     == <<"f","i","r","e">>
electric == <<"e","l","e","c","t","r","i","c">>
grass    == <<"g","r","a","s","s">>
flying   == <<"f","l","y","i","n","g">>
poison   == <<"p","o","i","s","o","n">>
ghost    == <<"g","h","o","s","t">>
stellar  == <<"s","t","e","l","l","a","r">>

\* typeColors of cacheTypes: the local colour of a type name; "" stands for
\* undefined (both are falsy in typeColors[name] || fallback).
typeColors(name) ==
    CASE name = <<"n","o","r","m","a","l">>         -> "#A8A878"
      [] name = fire                                -> "#F08030"
      [] name = <<"w","a","t","e","r">>             -> "#6890F0"
      [] name = electric                            -> "#F8D030"
      [] name = grass                               -> "#78C850"
      [] name = <<"i","c","e">>                     -> "#98D8D8"
      [] name = <<"f","i","g","h","t","i","n","g">> -> "#C03028"
      [] name = poison                              -> "#A040A0"
      [] name = <<"g","r","o","u","n","d">>         -> "#E0C068"
      [] name = flying                              -> "#A890F0"
      [] name = <<"p","s","y","c","h","i","c">>     -> "#F85888"
      [] name = <<"b","u","g">>                     -> "#A8B820"
      [] name = <<"r","o","c","k">>                 -> "#B8A038"
      [] name = ghost                               -> "#705898"
      [] name = <<"d","r","a","g","o","n">>         -> "#7038F8"
      [] name = <<"d","a","r","k">>                 -> "#705848"
      [] name = <<"s","t","e","e","l">>             -> "#B8B8D0"
      [] name = <<"f","a","i","r","y">>             -> "#EE99AC"
      [] OTHER                                      -> ""

FALLBACK_COLOR == "#68A090"

\* typeColors[type.name] || "#68A090"
TypeColor(name) ==
    IF typeColors(name) = "" THEN FALLBACK_COLOR ELSE typeColors(name)

-----------------------------------------------------------------------------
(* The upstream API (PokeAPI), an opaque collaborator.  A detail or       *)
(* species request for an id answers with a status and, when the status   *)
(* is 200, a document for that id.  The document's height stands for the  *)
(* part of the payload that may differ from one request to the next.      *)

Statuses == {200, 500}

\* Response.ok
ok(status) == status >= 200 /\ status <= 299

UpstreamHeights == {4, 7}

UpstreamName(id) ==
    CASE id = 1    -> <<"b","u","l","b","a","s","a","u","r">>
      [] id = 5    -> <<"c","h","a","r","m","e","l","e","o","n">>
      [] id = 6    -> <<"C","h","a","r","i","z","a","r","d">>
      [] id = 25   -> <<"p","i","k","a","c","h","u">>
      [] id = 125  -> <<"e","l","e","c","t","a","b","u","z","z">>
      [] id = 152  -> <<"c","h","i","k","o","r","i","t","a">>
      [] id = 1025 -> <<"p","e","c","h","a","r","u","n","t">>
      [] OTHER     -> <<"m","e","w">>

UpstreamTypes(id) ==
    CASE id = 1    -> <<grass, poison>>
      [] id = 5    -> <<fire>>
      [] id = 6    -> <<<<"F","i","r","e">>, flying>>
      [] id = 25   -> <<electric>>
      [] id = 125  -> <<electric>>
      [] id = 152  -> <<grass>>
      [] id = 1025 -> <<poison, ghost>>
      [] OTHER     -> <<<<"n","o","r","m","a","l">>>>

\* GET /pokemon/{id}
PokemonPayload(id, h) ==
    [id |-> id, name |-> UpstreamName(id), height |-> h,
     types |-> UpstreamTypes(id)]

\* GET /pokemon-species/{id}
SpeciesPayload(id) ==
    [id |-> id, name |-> UpstreamName(id), capture_rate |-> 45]

\* GET /type: typesData.results, the names of the type catalog
TypeCatalog == <<fire, electric, stellar>>

-----------------------------------------------------------------------------
(* pokemonInternal: the internal query and mutations *)

\* Mutant: the comparisons are strict.
getGenerationFromId_Strict(id) ==
    IF id < 151 THEN 1
    ELSE IF id < 251 THEN 2
    ELSE IF id < 386 THEN 3
    ELSE IF id < 493 THEN 4
    ELSE IF id < 649 THEN 5
    ELSE IF id < 721 THEN 6
    ELSE IF id < 809 THEN 7
    ELSE IF id < 905 THEN 8
    ELSE 9

getGenerationFromId(id) ==
    IF id <= 151 THEN 1
    ELSE IF id <= 251 THEN 2
    ELSE IF id <= 386 THEN 3
    ELSE IF id <= 493 THEN 4
    ELSE IF id <= 649 THEN 5
    ELSE IF id <= 721 THEN 6
    ELSE IF id <= 809 THEN 7
    ELSE IF id <= 905 THEN 8
    ELSE 9

\* withIndex("by_pokemon_id", q => q.eq("pokemonId", id)).collect(), as the
\* positions of the rows, in creation order
RowsById(t, id) == {i \in 1..Len(t) : t[i].pokemonId = id}

\* results[0] ?? null
FirstById(t, id) ==
    IF RowsById(t, id) = {} THEN NULL ELSE t[Min(RowsById(t, id))]

getByIdInternal(pk, pokemonId) == FirstById(pk, pokemonId)

\* Mutant: the document is inserted without looking for an existing row.
Upsert_InsertOnly(t, id, doc) == Append(t, doc)

\* existing ? ctx.db.patch(existing._id, doc) : ctx.db.insert(table, doc)
Upsert(t, id, doc) ==
    IF RowsById(t, id) # {}
    THEN [t EXCEPT ![Min(RowsById(t, id))] = doc]
    ELSE Append(t, doc)

pokemonDoc(pokemonData) ==
    [pokemonId  |-> pokemonData.id,
     name       |-> pokemonData.name,
     height     |-> pokemonData.height,
     types      |-> pokemonData.types,
     generation |-> getGenerationFromId(pokemonData.id)]

speciesDoc(pokemonData, speciesData) ==
    [pokemonId   |-> pokemonData.id,
     name        |-> speciesData.name,
     captureRate |-> speciesData.capture_rate,
     generation  |-> getGenerationFromId(pokemonData.id)]

\* cachePokemon: the new pokemon and pokemonSpecies tables
cachePokemonPk(pk, pokemonData) ==
    Upsert(pk, pokemonData.id, pokemonDoc(pokemonData))

\* Mutant: the species row is patched when there is one, never inserted.
cachePokemonSp_PatchOnly(sp, pokemonData, speciesData) ==
    IF RowsById(sp, pokemonData.id) # {}
    THEN Upsert(sp, pokemonData.id, speciesDoc(pokemonData, speciesData))
    ELSE sp

cachePokemonSp(sp, pokemonData, speciesData) ==
    Upsert(sp, pokemonData.id, speciesDoc(pokemonData, speciesData))

\* withIndex("by_name", q => q.eq("name", name)).collect()
TypeRows(ty, name) == {i \in 1..Len(ty) : ty[i].name = name}

\* Mutant: the table is keyed by the name as it was passed.
cacheType_RawKey(ty, argName, color) ==
    IF TypeRows(ty, argName) = {}
    THEN Append(ty, [name |-> argName, color |-> color])
    ELSE LET first == Min(TypeRows(ty, argName)) IN
         IF ty[first].color # color
         THEN [ty EXCEPT ![first].color = color]
         ELSE ty

\* cacheType: the new pokemonTypes table
cacheType(ty, argName, color) ==
    LET name == trim(toLowerCase(argName)) IN
    IF TypeRows(ty, name) = {}
    THEN Append(ty, [name |-> name, color |-> color])
    ELSE LET first == Min(TypeRows(ty, name)) IN
         IF ty[first].color # color
         THEN [ty EXCEPT ![first].color = color]
         ELSE ty

-----------------------------------------------------------------------------
(* pokemonData.fetchAndCachePokemon, the fetch action.                     *)
(*                                                                         *)
(* call[c].pc is where call c stands:                                      *)
(*   "idle"      not started                                               *)
(*   "types"     cacheTypes awaits the GET /type response                  *)
(*   "cacheType" cacheTypes awaits runMutation(cacheType) of entry typeIdx *)
(*   "batch"     awaits Promise.all of the batch ids[i .. i+CONCURRENCY)   *)
(*   "delay"     awaits the setTimeout between batches                     *)
(*   "returned"  returned call[c].result                                   *)
(*   "thrown"    threw call[c].result                                      *)
(* call[c].fetched is the set of ids the call has issued upstream requests *)
(* for, and call[c].atStart the pokemon table as it was when the call      *)
(* started; both are records of what happened, read by no step.            *)
(* task[c][id].pc is where the async function of id stands:               *)
(*   "check"     awaits runQuery(getByIdInternal)                          *)
(*   "fetch"     awaits the detail and species responses                   *)
(*   "write"     awaits runMutation(cachePokemon)                          *)
(*   "skipped"   returned because the id was cached                        *)
(*   "done"      returned after the write                                  *)
(*   "failed"    threw                                                     *)

MAX_POKEMON_ID == 1025
DEFAULT_FETCH_LIMIT == 151
PALDEA_START == 906
CONCURRENCY_DEFAULT == 8
CONCURRENCY_PALDEA == 16
BATCH_DELAY_DEFAULT == 150
BATCH_DELAY_PALDEA == 50

\* args.f || d, for an optional number
OrDefault(args, f, d) ==
    IF f \in DOMAIN args /\ args[f] # 0 THEN args[f] ELSE d

\* Mutant: the ids start at offset instead of offset + 1.
TargetIds_OffByOne(limit, offset) ==
    SelectSeq([i \in 1..limit |-> offset + i - 1],
              LAMBDA id : id <= MAX_POKEMON_ID)

\* Array.from({length: limit}, (_, i) => offset + i + 1).filter(id => id <= 1025)
TargetIds(limit, offset) ==
    SelectSeq([i \in 1..limit |-> offset + i],
              LAMBDA id : id <= MAX_POKEMON_ID)

\* Mutant: one id of the Paldea range is enough.
isPaldeaOnly_Some(ids) == \E k \in 1..Len(ids) : ids[k] >= PALDEA_START

isPaldeaOnly(ids) == \A k \in 1..Len(ids) : ids[k] >= PALDEA_START

IdleCall ==
    [pc |-> "idle", args |-> <<>>, ids |-> <<>>, i |-> 0, CONCURRENCY |-> 0,
     BATCH_DELAY_MS |-> 0, typeIdx |-> 0, fetched |-> {}, atStart |-> <<>>,
     result |-> NULL]

CachedIds(pk) == {pk[k].pokemonId : k \in 1..Len(pk)}

\* batch.map(async (pokemonId) => ...): every async function of the batch
\* starts and awaits its runQuery
BatchTasks(ids, i, conc) ==
    [id \in Range(slice(ids, i, i + conc)) |-> [pc |-> "check"]]

\* catch (error) { throw new Error(`Failed to fetch Pokemon data: ${message}`) }
FetchError(cause) ==
    [prefix |-> "Failed to fetch Pokemon data: ", cause |-> cause]

TaskSettled(t) == t.pc \in {"skipped", "done", "failed"}

\* The handler up to its first await.  A call slot is taken when no async
\* function of an earlier call in it is still running.
StartFetch(c, args) ==
    /\ call[c].pc = "idle"
    /\ \A id \in DOMAIN task[c] : TaskSettled(task[c][id])
    /\ task' = [task EXCEPT ![c] = <<>>]
    /\ nCalls' = nCalls + 1
    /\ LET limit  == OrDefault(args, "limit", DEFAULT_FETCH_LIMIT)
           offset == OrDefault(args, "offset", 0)
           ids    == TargetIds(limit, offset)
       IN  call' = [call EXCEPT ![c] =
                IF Len(ids) = 0
                THEN [IdleCall EXCEPT !.pc = "returned", !.args = args,
                         !.atStart = pokemon,
                         !.result = [success |-> TRUE, cached |-> 0]]
                ELSE [IdleCall EXCEPT !.pc = "types", !.args = args,
                         !.ids = ids, !.atStart = pokemon]]
    /\ UNCHANGED <<cacheVars, favVars, lastOp, hisui, uiVars>>

\* const CONCURRENCY = ...; the first iteration of the batch loop
EnterBatches(cl) ==
    LET paldea == isPaldeaOnly(cl.ids) IN
    [cl EXCEPT !.pc = "batch", !.i = 0,
         !.CONCURRENCY = IF paldea THEN CONCURRENCY_PALDEA
                         ELSE CONCURRENCY_DEFAULT,
         !.BATCH_DELAY_MS = IF paldea THEN BATCH_DELAY_PALDEA
                            ELSE BATCH_DELAY_DEFAULT]

\* Mutant: a failed GET /type is ignored and the batch loop starts.
TypesResponse_IgnoreFailure(c, status) ==
    /\ call[c].pc = "types"
    /\ IF ok(status) /\ Len(TypeCatalog) # 0
       THEN /\ call' = [call EXCEPT ![c].pc = "cacheType", ![c].typeIdx = 1]
            /\ UNCHANGED task
       ELSE /\ call' = [call EXCEPT ![c] = EnterBatches(call[c])]
            /\ task' = [task EXCEPT ![c] =
                   BatchTasks(call'[c].ids, 0, call'[c].CONCURRENCY)]
    /\ UNCHANGED <<cacheVars, favVars, nCalls, lastOp, hisui, uiVars>>

\* cacheTypes: the GET /type response arrives with this status.
TypesResponse(c, status) ==
    /\ call[c].pc = "types"
    /\ IF ~ok(status)
       THEN /\ call' = [call EXCEPT ![c].pc = "thrown",
                   ![c].result = FetchError([kind |-> "types", status |-> status])]
            /\ UNCHANGED task
       ELSE IF Len(TypeCatalog) = 0
       THEN /\ call' = [call EXCEPT ![c] = EnterBatches(call[c])]
            /\ task' = [task EXCEPT ![c] =
                   BatchTasks(call'[c].ids, 0, call'[c].CONCURRENCY)]
       ELSE /\ call' = [call EXCEPT ![c].pc = "cacheType", ![c].typeIdx = 1]
            /\ UNCHANGED task
    /\ UNCHANGED <<cacheVars, favVars, nCalls, lastOp, hisui, uiVars>>

\* cacheTypes: runMutation(cacheType, {name, color: typeColors[name] || fallback})
\* for the entry typeIdx; after the last entry the batch loop starts.
CacheTypeStep(c) ==
    /\ call[c].pc = "cacheType"
    /\ LET name  == TypeCatalog[call[c].typeIdx]
           color == IF typeColors(name) = "" THEN FALLBACK_COLOR
                    ELSE typeColors(name)
       IN  pokemonTypes' = cacheType(pokemonTypes, name, color)
    /\ IF call[c].typeIdx < Len(TypeCatalog)
       THEN /\ call' = [call EXCEPT ![c].typeIdx = @ + 1]
            /\ UNCHANGED task
       ELSE /\ call' = [call EXCEPT ![c] = EnterBatches(call[c])]
            /\ task' = [task EXCEPT ![c] =
                   BatchTasks(call'[c].ids, 0, call'[c].CONCURRENCY)]
    /\ UNCHANGED <<pokemon, pokemonSpecies, favVars, nCalls, lastOp, hisui,
                   uiVars>>

\* Promise.all([fetch(pokemonUrl), fetch(speciesUrl)]): the async function
\* awaits the responses of its two requests.
FetchingTask == [pc |-> "fetch", requests |-> {"pokemon", "species"}]

\* Mutant: the async function does not return when the id is cached.
TaskCheck_NoSkip(c, id) ==
    /\ id \in DOMAIN task[c]
    /\ task[c][id].pc = "check"
    /\ task' = [task EXCEPT ![c][id] = FetchingTask]
    /\ call' = [call EXCEPT ![c].fetched = @ \cup {id}]
    /\ UNCHANGED <<cacheVars, favVars, nCalls, lastOp, hisui, uiVars>>

\* const existing = await ctx.runQuery(getByIdInternal); if (existing) return;
\* otherwise both upstream requests are issued.
TaskCheck(c, id) ==
    /\ id \in DOMAIN task[c]
    /\ task[c][id].pc = "check"
    /\ IF getByIdInternal(pokemon, id) # NULL
       THEN /\ task' = [task EXCEPT ![c][id] = [pc |-> "skipped"]]
            /\ UNCHANGED call
       ELSE /\ task' = [task EXCEPT ![c][id] = FetchingTask]
            /\ call' = [call EXCEPT ![c].fetched = @ \cup {id}]
    /\ UNCHANGED <<cacheVars, favVars, nCalls, lastOp, hisui, uiVars>>

\* if (!pokemonResponse.ok) throw ...; if (!speciesResponse.ok) throw ...:
\* the error of the async function, naming the id and the status
ResponseError(id, pStatus, sStatus) ==
    IF ~ok(pStatus)
    THEN [kind |-> "pokemon", id |-> id, status |-> pStatus]
    ELSE [kind |-> "species", id |-> id, status |-> sStatus]

\* Mutant: the async function throws, and the call goes on waiting.
TaskResponse_NoReject(c, id, pStatus, sStatus, h) ==
    /\ id \in DOMAIN task[c]
    /\ task[c][id].pc = "fetch"
    /\ IF ok(pStatus) /\ ok(sStatus)
       THEN task' = [task EXCEPT ![c][id] =
                   [pc |-> "write", pokemonData |-> PokemonPayload(id, h),
                    speciesData |-> SpeciesPayload(id)]]
       ELSE task' = [task EXCEPT ![c][id] =
                   [pc |-> "failed", pokemonResponse |-> pStatus,
                    speciesResponse |-> sStatus,
                    error |-> ResponseError(id, pStatus, sStatus)]]
    /\ UNCHANGED <<call, cacheVars, favVars, nCalls, lastOp, hisui, uiVars>>

\* Both responses have arrived.  A non-ok status throws; the first throw of
\* a batch rejects Promise.all, and the handler's catch rethrows it.  The
\* async function that threw keeps its two responses and its error.
TaskResponse(c, id, pStatus, sStatus, h) ==
    /\ id \in DOMAIN task[c]
    /\ task[c][id].pc = "fetch"
    /\ IF ok(pStatus) /\ ok(sStatus)
       THEN /\ task' = [task EXCEPT ![c][id] =
                   [pc |-> "write", pokemonData |-> PokemonPayload(id, h),
                    speciesData |-> SpeciesPayload(id)]]
            /\ UNCHANGED call
       ELSE /\ task' = [task EXCEPT ![c][id] =
                   [pc |-> "failed", pokemonResponse |-> pStatus,
                    speciesResponse |-> sStatus,
                    error |-> ResponseError(id, pStatus, sStatus)]]
            /\ call' = IF call[c].pc # "batch" THEN call
                       ELSE [call EXCEPT ![c].pc = "thrown",
                               ![c].result = FetchError(
                                  ResponseError(id, pStatus, sStatus))]
    /\ UNCHANGED <<cacheVars, favVars, nCalls, lastOp, hisui, uiVars>>

\* Mutant: the rejection of the batch cancels the writes still to come.
TaskWrite_Cancelled(c, id) ==
    /\ id \in DOMAIN task[c]
    /\ task[c][id].pc = "write"
    /\ call[c].pc = "batch"
    /\ pokemon' = cachePokemonPk(pokemon, task[c][id].pokemonData)
    /\ pokemonSpecies' = cachePokemonSp(pokemonSpecies, task[c][id].pokemonData,
                                        task[c][id].speciesData)
    /\ task' = [task EXCEPT ![c][id] = [pc |-> "done"]]
    /\ UNCHANGED <<pokemonTypes, call, favVars, nCalls, lastOp, hisui, uiVars>>

\* await ctx.runMutation(cachePokemon, {pokemonData, speciesData})
TaskWrite(c, id) ==
    /\ id \in DOMAIN task[c]
    /\ task[c][id].pc = "write"
    /\ pokemon' = cachePokemonPk(pokemon, task[c][id].pokemonData)
    /\ pokemonSpecies' = cachePokemonSp(pokemonSpecies, task[c][id].pokemonData,
                                        task[c][id].speciesData)
    /\ task' = [task EXCEPT ![c][id] = [pc |-> "done"]]
    /\ UNCHANGED <<pokemonTypes, call, favVars, nCalls, lastOp, hisui, uiVars>>

\* Mutant: the join waits for a write by every async function.
BatchSettled_AllWritten(c) ==
    \A id \in DOMAIN task[c] : task[c][id].pc = "done"

BatchSettled(c) ==
    \A id \in DOMAIN task[c] : task[c][id].pc \in {"skipped", "done"}

\* Mutant: the batch is joined as soon as one async function has finished.
BatchJoin_Race(c) ==
    /\ call[c].pc = "batch"
    /\ \E id \in DOMAIN task[c] : task[c][id].pc \in {"skipped", "done"}
    /\ call' = [call EXCEPT ![c].pc = "delay"]
    /\ UNCHANGED <<cacheVars, favVars, task, nCalls, lastOp, hisui, uiVars>>

\* Promise.all of the batch resolves; the setTimeout starts.
BatchJoin(c) ==
    /\ call[c].pc = "batch"
    /\ BatchSettled(c)
    /\ call' = [call EXCEPT ![c].pc = "delay"]
    /\ UNCHANGED <<cacheVars, favVars, task, nCalls, lastOp, hisui, uiVars>>

\* The timer fires: i += CONCURRENCY, then the next batch or the return.
DelayElapsed(c) ==
    /\ call[c].pc = "delay"
    /\ LET i == call[c].i + call[c].CONCURRENCY IN
       IF i < Len(call[c].ids)
       THEN /\ call' = [call EXCEPT ![c].pc = "batch", ![c].i = i]
            /\ task' = [task EXCEPT ![c] =
                   BatchTasks(call[c].ids, i, call[c].CONCURRENCY)]
       ELSE /\ call' = [call EXCEPT ![c].pc = "returned",
                   ![c].result = [success |-> TRUE,
                                  cached |-> Len(call[c].ids)]]
            /\ UNCHANGED task
    /\ UNCHANGED <<cacheVars, favVars, nCalls, lastOp, hisui, uiVars>>

-----------------------------------------------------------------------------
(* pokemonData.fetchHisuiPokemon, the regional fetch action.               *)
(*                                                                         *)
(* hisui.pc is where the call stands: "idle", "types" and "cacheType" as   *)
(* for fetchAndCachePokemon, "dex" awaiting the GET /pokedex/hisui         *)
(* response, then "batch", "delay", "returned", "thrown".                  *)
(* hisui.tasks[k].pc is where the async function of entry k stands:        *)
(*   "species"  awaits the GET /pokemon-species/{name} response            *)
(*   "pokemon"  awaits the GET /pokemon/{targetPokemonName} response       *)
(*   "write"    awaits runMutation(cachePokemon)                           *)
(*   "returned" returned at once: the entry has no species name            *)
(*   "done"     returned after the write                                   *)
(*   "caught"   threw, and the inner catch logged the error                *)

HISUI_CONCURRENCY == 8
HISUI_BATCH_DELAY == 120

pikachu   == <<"p","i","k","a","c","h","u">>
growlithe == <<"g","r","o","w","l","i","t","h","e">>
rowlet    == <<"r","o","w","l","e","t">>
HISUI_SUFFIX     == <<"-","h","i","s","u","i">>
HISUI_SUFFIX_ALT == <<"-","h","i","s","u","y","a","n">>
growlitheHisui == growlithe \o HISUI_SUFFIX

\* An entry of dexData.pokemon_entries; the empty name stands for an entry
\* whose pokemon_species has no name.
DexEntry(name) == [pokemon_species |-> [name |-> name]]

Variety(isDefault, name) == [is_default |-> isDefault, pokemon |-> [name |-> name]]

\* GET /pokemon-species/{name}
SpeciesByName(name) ==
    CASE name = pikachu ->
            [id |-> 25, name |-> name, capture_rate |-> 190,
             varieties |-> <<Variety(TRUE, pikachu)>>]
      [] name = growlithe ->
            [id |-> 58, name |-> name, capture_rate |-> 190,
             varieties |-> <<Variety(TRUE, growlithe),
                             Variety(FALSE, growlitheHisui)>>]
      [] OTHER ->
            [id |-> 722, name |-> name, capture_rate |-> 45,
             varieties |-> <<>>]

PokemonIdByName(name) ==
    CASE name = pikachu -> 25
      [] name = growlithe -> 58
      [] name = growlitheHisui -> 10229
      [] OTHER -> 722

\* GET /pokemon/{name}
PokemonByName(name, h) ==
    [id |-> PokemonIdByName(name), name |-> name, height |-> h,
     types |-> UpstreamTypes(PokemonIdByName(name))]

\* varieties.find(v => v.pokemon.name.includes(suffix)), as a position or 0
FindVariety(varieties, suffix) ==
    IF \E k \in 1..Len(varieties) : includes(varieties[k].pokemon.name, suffix)
    THEN Min({k \in 1..Len(varieties) :
                 includes(varieties[k].pokemon.name, suffix)})
    ELSE 0

\* varieties.find(v => v.is_default), as a position or 0
FindDefault(varieties) ==
    IF \E k \in 1..Len(varieties) : varieties[k].is_default
    THEN Min({k \in 1..Len(varieties) : varieties[k].is_default})
    ELSE 0

\* hisuianVariety?.pokemon?.name || default variety's name || speciesName
targetPokemonName(speciesData, speciesName) ==
    LET v == speciesData.varieties IN
    IF FindVariety(v, HISUI_SUFFIX) # 0
    THEN v[FindVariety(v, HISUI_SUFFIX)].pokemon.name
    ELSE IF FindVariety(v, HISUI_SUFFIX_ALT) # 0
    THEN v[FindVariety(v, HISUI_SUFFIX_ALT)].pokemon.name
    ELSE IF FindDefault(v) # 0
    THEN v[FindDefault(v)].pokemon.name
    ELSE speciesName

IdleHisui ==
    [pc |-> "idle", typeIdx |-> 0, entries |-> <<>>, i |-> 0, tasks |-> <<>>,
     result |-> NULL]

\* catch (error) { throw new Error(`Failed to fetch Hisui Pokémon: ${message}`) }
HisuiError(cause) ==
    [prefix |-> "Failed to fetch Hisui Pokemon: ", cause |-> cause]

\* batch.map(async (entry) => ...): an entry without a species name returns
\* at once, the others await their species request
HisuiBatchTasks(entries, i) ==
    [k \in {k \in 1..Len(entries) : i < k /\ k <= i + HISUI_CONCURRENCY} |->
        IF entries[k].pokemon_species.name = <<>>
        THEN [pc |-> "returned"]
        ELSE [pc |-> "species",
              speciesName |-> entries[k].pokemon_species.name]]

HisuiTaskSettled(t) == t.pc \in {"returned", "done", "caught"}

\* The handler up to its first await: cacheTypes' request.
HisuiStart ==
    /\ hisui.pc = "idle"
    /\ hisui' = [hisui EXCEPT !.pc = "types"]
    /\ UNCHANGED <<cacheVars, favVars, call, task, nCalls, lastOp, uiVars>>

\* cacheTypes: the GET /type response arrives with this status.
HisuiTypesResponse(status) ==
    /\ hisui.pc = "types"
    /\ hisui' =
          IF ~ok(status)
          THEN [hisui EXCEPT !.pc = "thrown",
                   !.result = HisuiError([kind |-> "types", status |-> status])]
          ELSE IF Len(TypeCatalog) = 0
          THEN [hisui EXCEPT !.pc = "dex"]
          ELSE [hisui EXCEPT !.pc = "cacheType", !.typeIdx = 1]
    /\ UNCHANGED <<cacheVars, favVars, call, task, nCalls, lastOp, uiVars>>

\* cacheTypes: runMutation(cacheType) for the entry typeIdx; after the last
\* one the regional dex is requested.
HisuiCacheTypeStep ==
    /\ hisui.pc = "cacheType"
    /\ pokemonTypes' = cacheType(pokemonTypes, TypeCatalog[hisui.typeIdx],
                                 TypeColor(TypeCatalog[hisui.typeIdx]))
    /\ hisui' = IF hisui.typeIdx < Len(TypeCatalog)
                THEN [hisui EXCEPT !.typeIdx = @ + 1]
                ELSE [hisui EXCEPT !.pc = "dex"]
    /\ UNCHANGED <<pokemon, pokemonSpecies, favVars, call, task, nCalls, lastOp,
                   uiVars>>

\* The GET /pokedex/hisui response arrives with this status and, when ok,
\* these entries.  No entry: the loop does not run and the call returns.
HisuiDexResponse(status, dex) ==
    /\ hisui.pc = "dex"
    /\ hisui' =
          IF ~ok(status)
          THEN [hisui EXCEPT !.pc = "thrown",
                   !.result = HisuiError([kind |-> "dex", status |-> status])]
          ELSE IF Len(dex) = 0
          THEN [hisui EXCEPT !.pc = "returned", !.entries = dex,
                   !.result = [success |-> TRUE,
                               message |-> "Hisui Pokemon cached"]]
          ELSE [hisui EXCEPT !.pc = "batch", !.entries = dex, !.i = 0,
                   !.tasks = HisuiBatchTasks(dex, 0)]
    /\ UNCHANGED <<cacheVars, favVars, call, task, nCalls, lastOp, uiVars>>

\* Mutant: the async function of an entry has no catch of its own.
HisuiSpeciesResponse_Rethrow(k, status) ==
    /\ hisui.pc \in {"batch", "thrown"}
    /\ k \in DOMAIN hisui.tasks
    /\ hisui.tasks[k].pc = "species"
    /\ LET name == hisui.tasks[k].speciesName IN
       hisui' =
          IF ~ok(status)
          THEN [hisui EXCEPT
                   !.tasks[k] = [pc |-> "caught",
                                 error |-> [kind |-> "species", name |-> name,
                                            status |-> status]],
                   !.pc = "thrown",
                   !.result = HisuiError([kind |-> "species", name |-> name,
                                          status |-> status])]
          ELSE [hisui EXCEPT !.tasks[k] =
                   [pc |-> "pokemon", speciesData |-> SpeciesByName(name),
                    targetPokemonName |->
                        targetPokemonName(SpeciesByName(name), name)]]
    /\ UNCHANGED <<cacheVars, favVars, call, task, nCalls, lastOp, uiVars>>

\* The species response of entry k arrives.  A non-ok status throws inside
\* the async function, whose catch logs it.
HisuiSpeciesResponse(k, status) ==
    /\ hisui.pc = "batch"
    /\ k \in DOMAIN hisui.tasks
    /\ hisui.tasks[k].pc = "species"
    /\ LET name == hisui.tasks[k].speciesName IN
       hisui' = [hisui EXCEPT !.tasks[k] =
          IF ~ok(status)
          THEN [pc |-> "caught",
                error |-> [kind |-> "species", name |-> name,
                           status |-> status]]
          ELSE [pc |-> "pokemon", speciesData |-> SpeciesByName(name),
                targetPokemonName |->
                    targetPokemonName(SpeciesByName(name), name)]]
    /\ UNCHANGED <<cacheVars, favVars, call, task, nCalls, lastOp, uiVars>>

\* The response for the chosen form of entry k arrives.
HisuiPokemonResponse(k, status, h) ==
    /\ hisui.pc = "batch"
    /\ k \in DOMAIN hisui.tasks
    /\ hisui.tasks[k].pc = "pokemon"
    /\ LET t == hisui.tasks[k] IN
       hisui' = [hisui EXCEPT !.tasks[k] =
          IF ~ok(status)
          THEN [pc |-> "caught",
                error |-> [kind |-> "pokemon", name |-> t.targetPokemonName,
                           status |-> status]]
          ELSE [pc |-> "write", speciesData |-> t.speciesData,
                pokemonData |-> PokemonByName(t.targetPokemonName, h)]]
    /\ UNCHANGED <<cacheVars, favVars, call, task, nCalls, lastOp, uiVars>>

\* await ctx.runMutation(cachePokemon, {pokemonData, speciesData})
HisuiWrite(k) ==
    /\ hisui.pc = "batch"
    /\ k \in DOMAIN hisui.tasks
    /\ hisui.tasks[k].pc = "write"
    /\ pokemon' = cachePokemonPk(pokemon, hisui.tasks[k].pokemonData)
    /\ pokemonSpecies' = cachePokemonSp(pokemonSpecies,
                                        hisui.tasks[k].pokemonData,
                                        hisui.tasks[k].speciesData)
    /\ hisui' = [hisui EXCEPT !.tasks[k] = [pc |-> "done"]]
    /\ UNCHANGED <<pokemonTypes, favVars, call, task, nCalls, lastOp, uiVars>>

\* The mutation throws (cachePokemon rethrows any error of the database):
\* the transaction writes nothing, and the inner catch logs the error.
HisuiWriteFails(k) ==
    /\ hisui.pc = "batch"
    /\ k \in DOMAIN hisui.tasks
    /\ hisui.tasks[k].pc = "write"
    /\ hisui' = [hisui EXCEPT !.tasks[k] =
                    [pc |-> "caught", error |-> [kind |-> "write"]]]
    /\ UNCHANGED <<cacheVars, favVars, call, task, nCalls, lastOp, uiVars>>

\* Promise.all of the batch resolves; the setTimeout starts.
HisuiBatchJoin ==
    /\ hisui.pc = "batch"
    /\ \A k \in DOMAIN hisui.tasks : HisuiTaskSettled(hisui.tasks[k])
    /\ hisui' = [hisui EXCEPT !.pc = "delay"]
    /\ UNCHANGED <<cacheVars, favVars, call, task, nCalls, lastOp, uiVars>>

\* The timer fires: i += CONCURRENCY, then the next batch or the return.
HisuiDelayElapsed ==
    /\ hisui.pc = "delay"
    /\ LET i == hisui.i + HISUI_CONCURRENCY IN
       hisui' =
          IF i < Len(hisui.entries)
          THEN [hisui EXCEPT !.pc = "batch", !.i = i,
                   !.tasks = HisuiBatchTasks(hisui.entries, i)]
          ELSE [hisui EXCEPT !.pc = "returned",
                   !.result = [success |-> TRUE,
                               message |-> "Hisui Pokemon cached"]]
    /\ UNCHANGED <<cacheVars, favVars, call, task, nCalls, lastOp, uiVars>>

-----------------------------------------------------------------------------
(* pokemon.list, the paginated query *)

DEFAULT_LIST_LIMIT == 20

\* GEN_RANGES[generation], or NULL when the table has no such key
GEN_RANGES(g) ==
    CASE g = 1 -> [start |-> 1,   end |-> 151]
      [] g = 2 -> [start |-> 152, end |-> 251]
      [] g = 3 -> [start |-> 252, end |-> 386]
      [] g = 4 -> [start |-> 387, end |-> 493]
      [] g = 5 -> [start |-> 494, end |-> 649]
      [] g = 6 -> [start |-> 650, end |-> 721]
      [] g = 7 -> [start |-> 722, end |-> 809]
      [] g = 8 -> [start |-> 810, end |-> 905]
      [] g = 9 -> [start |-> 906, end |-> 1025]
      [] OTHER -> NULL

\* The rows of s at the positions of I, in the order of s.
RECURSIVE Pick(_, _)
Pick(s, I) ==
    IF s = <<>> THEN <<>>
    ELSE Pick(SubSeq(s, 1, Len(s) - 1), I)
         \o (IF Len(s) \in I THEN <<s[Len(s)]>> ELSE <<>>)

\* x put after the rows of the sorted sequence whose id is <= its id
InsertById(sorted, x) ==
    LET k == Cardinality({i \in 1..Len(sorted) :
                             sorted[i].pokemonId <= x.pokemonId})
    IN  SubSeq(sorted, 1, k) \o <<x>> \o SubSeq(sorted, k + 1, Len(sorted))

\* Mutant: the rows are left in the order they came in.
sortById_Unsorted(s) == s

\* results.sort((a, b) => a.pokemonId - b.pokemonId): a stable sort.  It is
\* also the order of a by_pokemon_id index scan (id, then creation time).
RECURSIVE sortById(_)
sortById(s) ==
    IF s = <<>> THEN <<>>
    ELSE InsertById(sortById(SubSeq(s, 1, Len(s) - 1)), s[Len(s)])

\* withIndex("by_generation", q => q.eq("generation", g)).collect()
ByGeneration(pk, g) == Pick(pk, {i \in 1..Len(pk) : pk[i].generation = g})

\* withIndex("by_pokemon_id", q => q.gte(start).lte(end)).collect()
ByIdRange(pk, range) ==
    sortById(Pick(pk, {i \in 1..Len(pk) :
                         /\ pk[i].pokemonId >= range.start
                         /\ pk[i].pokemonId <= range.end}))

hasValidGeneration(args) ==
    "generation" \in DOMAIN args /\ args.generation > 0

\* Mutant: the id range is used whenever the generation has one.
ListSource_RangeFirst(pk, args) ==
    IF hasValidGeneration(args)
    THEN IF GEN_RANGES(args.generation) # NULL
         THEN ByIdRange(pk, GEN_RANGES(args.generation))
         ELSE ByGeneration(pk, args.generation)
    ELSE pk

\* The rows list starts from: by generation, by id range, or all.
ListSource(pk, args) ==
    IF hasValidGeneration(args)
    THEN IF Len(ByGeneration(pk, args.generation)) # 0
         THEN ByGeneration(pk, args.generation)
         ELSE IF GEN_RANGES(args.generation) # NULL
              THEN ByIdRange(pk, GEN_RANGES(args.generation))
              ELSE <<>>
    ELSE pk

\* Mutant: of the rows of an id the last is kept.
Dedup_KeepLast(s) ==
    Pick(s, {i \in 1..Len(s) :
                \A j \in (i + 1)..Len(s) : s[j].pokemonId # s[i].pokemonId})

\* De-duplicate by pokemonId, keeping the first row of each id.
Dedup(s) ==
    Pick(s, {i \in 1..Len(s) :
                \A j \in 1..(i - 1) : s[j].pokemonId # s[i].pokemonId})

\* Mutant: the query is compared as typed.
searchLowerOf_AsTyped(args) == args.search

\* if (args.search) results = results.filter(...)
searchLowerOf(args) == toLowerCase(args.search)

SearchFilter(s, args) ==
    IF "search" \in DOMAIN args /\ args.search # <<>>
    THEN Pick(s, {i \in 1..Len(s) :
                    \/ includes(toLowerCase(s[i].name), searchLowerOf(args))
                    \/ includes(toString(s[i].pokemonId), searchLowerOf(args))})
    ELSE s

\* Mutant: the requested types are compared as typed.
filterTypesOf_AsTyped(args) == {args.types[k] : k \in 1..Len(args.types)}

\* args.types.map((t) => t.toLowerCase())
filterTypesOf(args) == {toLowerCase(args.types[k]) : k \in 1..Len(args.types)}

\* if (args.types && args.types.length > 0) results = results.filter(...)
TypeFilter(s, args) ==
    IF "types" \in DOMAIN args /\ Len(args.types) > 0
    THEN Pick(s, {i \in 1..Len(s) :
                    \E k \in 1..Len(s[i].types) :
                       toLowerCase(s[i].types[k]) \in filterTypesOf(args)})
    ELSE s

\* The filtered, sorted result set before pagination.
ListResults(pk, args) ==
    sortById(TypeFilter(SearchFilter(Dedup(ListSource(pk, args)), args), args))

\* Mutant: hasMore also on the page that ends with the last record.
list_MoreAtEnd(pk, args) ==
    LET limit   == OrDefault(args, "limit", DEFAULT_LIST_LIMIT)
        offset  == OrDefault(args, "offset", 0)
        results == ListResults(pk, args)
    IN  [pokemon |-> slice(results, offset, offset + limit),
         total   |-> Len(results),
         hasMore |-> offset + limit <= Len(results)]

\* The handler of pokemon.list
list(pk, args) ==
    LET limit   == OrDefault(args, "limit", DEFAULT_LIST_LIMIT)
        offset  == OrDefault(args, "offset", 0)
        results == ListResults(pk, args)
    IN  [pokemon |-> slice(results, offset, offset + limit),
         total   |-> Len(results),
         hasMore |-> offset + limit < Len(results)]

\* The handler of pokemon.getById: null, or {...pokemon, species} with the
\* first pokemon row and the first species row (or null) of the id
getById(pk, sp, pokemonId) ==
    IF FirstById(pk, pokemonId) = NULL THEN NULL
    ELSE [pokemon |-> FirstById(pk, pokemonId),
          species |-> FirstById(sp, pokemonId)]

\* The handler of pokemon.getTypes
getTypes(ty) == ty

-----------------------------------------------------------------------------
(* Requests of the public API.  lastOp holds the request being answered    *)
(* with its response, until the client has received it.                    *)

NoOp == [op |-> "none"]

Ready == lastOp = NoOp

\* The client receives the response.
Deliver ==
    /\ lastOp # NoOp
    /\ lastOp' = NoOp
    /\ UNCHANGED <<cacheVars, favVars, fetchVars, uiVars>>

\* A fetch action's runMutation(cachePokemon, {pokemonData, speciesData}),
\* the mutation as one transaction.
RunCachePokemon(pokemonData, speciesData) ==
    /\ pokemon' = cachePokemonPk(pokemon, pokemonData)
    /\ pokemonSpecies' = cachePokemonSp(pokemonSpecies, pokemonData, speciesData)
    /\ UNCHANGED <<pokemonTypes, favVars, fetchVars, lastOp, uiVars>>

\* runMutation(internal.pokemonInternal.cacheType, {name, color}), the
\* mutation as one transaction; it returns null.
RunCacheType(name, color) ==
    /\ pokemonTypes' = cacheType(pokemonTypes, name, color)
    /\ lastOp' = [op |-> "cacheType",
                  args |-> [name |-> name, color |-> color], result |-> NULL]
    /\ UNCHANGED <<pokemon, pokemonSpecies, favVars, fetchVars, uiVars>>

\* api.pokemon.list(args)
ListQuery(args) ==
    /\ lastOp' = [op |-> "list", args |-> args, result |-> list(pokemon, args)]
    /\ UNCHANGED <<cacheVars, favVars, fetchVars, uiVars>>

\* api.pokemon.getById({pokemonId})
GetById(pokemonId) ==
    /\ lastOp' = [op |-> "getById", pokemonId |-> pokemonId,
                  result |-> getById(pokemon, pokemonSpecies, pokemonId)]
    /\ UNCHANGED <<cacheVars, favVars, fetchVars, uiVars>>

\* Mutant: getTypes seeds an empty type table.
GetTypes_Seed ==
    /\ lastOp' = [op |-> "getTypes", result |-> getTypes(pokemonTypes)]
    /\ pokemonTypes' = IF pokemonTypes = <<>>
                       THEN cacheType(pokemonTypes, fire, TypeColor(fire))
                       ELSE pokemonTypes
    /\ UNCHANGED <<pokemon, pokemonSpecies, favVars, fetchVars, uiVars>>

\* api.pokemon.getTypes()
GetTypes ==
    /\ lastOp' = [op |-> "getTypes", result |-> getTypes(pokemonTypes)]
    /\ UNCHANGED <<cacheVars, favVars, fetchVars, uiVars>>

-----------------------------------------------------------------------------
(* Authentication, favorites and profiles *)

Users == {"ash", "misty"}

\* The caller's identity when the request carries none
NoUser == "anonymous"

Callers == Users \cup {NoUser}

\* getAuthUserId(ctx): the caller's user id; NoUser stands for null
getAuthUserId(caller) == caller

\* getCurrentUser(ctx): the id of the caller's users row, NoUser for null
getCurrentUser(us, caller) ==
    IF getAuthUserId(caller) = NoUser THEN NoUser
    ELSE IF caller \in DOMAIN us THEN caller ELSE NoUser

\* Mutant: the lookup is by pokemonId alone.
FavRows_AnyUser(fav, u, id) == {i \in 1..Len(fav) : fav[i].pokemonId = id}

\* withIndex("by_user_and_pokemon", q => q.eq("userId", u).eq("pokemonId", id))
FavRows(fav, u, id) ==
    {i \in 1..Len(fav) : fav[i].userId = u /\ fav[i].pokemonId = id}

\* withIndex("by_user", q => q.eq("userId", u)).collect()
FavoritesOf(fav, u) == Pick(fav, {i \in 1..Len(fav) : fav[i].userId = u})

\* Mutant: the row is inserted without looking for an existing one.
addToFavorites_NoLookup(us, fav, caller, pokemonId) ==
    IF getCurrentUser(us, caller) = NoUser
    THEN <<fav, [error |-> "Must be authenticated to add favorites"]>>
    ELSE <<Append(fav, [userId |-> caller, pokemonId |-> pokemonId]),
           [ok |-> TRUE]>>

\* Mutant: the caller's identity is not checked.
addToFavorites_NoAuth(us, fav, caller, pokemonId) ==
    IF FavRows(fav, caller, pokemonId) # {}
    THEN <<fav, [error |-> "Pokemon already in favorites"]>>
    ELSE <<Append(fav, [userId |-> caller, pokemonId |-> pokemonId]),
           [ok |-> TRUE]>>

\* addToFavorites: <<the new favorites table, the result>>
addToFavorites(us, fav, caller, pokemonId) ==
    IF getCurrentUser(us, caller) = NoUser
    THEN <<fav, [error |-> "Must be authenticated to add favorites"]>>
    ELSE IF Cardinality(FavRows(fav, caller, pokemonId)) > 1
    THEN <<fav, [error |-> "unique() query returned more than one result"]>>
    ELSE IF FavRows(fav, caller, pokemonId) # {}
    THEN <<fav, [error |-> "Pokemon already in favorites"]>>
    ELSE <<Append(fav, [userId |-> caller, pokemonId |-> pokemonId]),
           [ok |-> TRUE]>>

\* Mutant: removing a favorite that is not there succeeds.
removeFromFavorites_NoError(us, fav, caller, pokemonId) ==
    IF getCurrentUser(us, caller) = NoUser
    THEN <<fav, [error |-> "Must be authenticated to remove favorites"]>>
    ELSE <<Pick(fav, (1..Len(fav)) \ FavRows(fav, caller, pokemonId)),
           [ok |-> TRUE]>>

\* removeFromFavorites: <<the new favorites table, the result>>
removeFromFavorites(us, fav, caller, pokemonId) ==
    IF getCurrentUser(us, caller) = NoUser
    THEN <<fav, [error |-> "Must be authenticated to remove favorites"]>>
    ELSE IF Cardinality(FavRows(fav, caller, pokemonId)) > 1
    THEN <<fav, [error |-> "unique() query returned more than one result"]>>
    ELSE IF FavRows(fav, caller, pokemonId) = {}
    THEN <<fav, [error |-> "Pokemon not in favorites"]>>
    ELSE <<Pick(fav, (1..Len(fav)) \ FavRows(fav, caller, pokemonId)),
           [ok |-> TRUE]>>

\* pokemonIds.map(id => first pokemon row of id ?? null)
JoinPokemon(pk, favs) ==
    [k \in 1..Len(favs) |-> FirstById(pk, favs[k].pokemonId)]

\* Mutant: the ids that are not cached stay in the list as null.
getFavorites_KeepNull(us, pk, fav, caller) ==
    IF getCurrentUser(us, caller) = NoUser THEN <<>>
    ELSE JoinPokemon(pk, FavoritesOf(fav, caller))

\* getFavorites: the caller's favorited pokemon rows
getFavorites(us, pk, fav, caller) ==
    IF getCurrentUser(us, caller) = NoUser THEN <<>>
    ELSE SelectSeq(JoinPokemon(pk, FavoritesOf(fav, caller)),
                   LAMBDA p : p # NULL)

\* The updates object: the name and image given in args
ProfileUpdates(args) == DOMAIN args \cap {"name", "image"}

\* ctx.db.patch(userId, updates)
PatchUser(us, userId, args) ==
    [us EXCEPT ![userId] =
        [f \in DOMAIN us[userId] |->
            IF f \in ProfileUpdates(args) THEN args[f] ELSE us[userId][f]]]

\* users.updateProfile: <<the new users table, the result>>
updateProfile(us, caller, args) ==
    IF getAuthUserId(caller) = NoUser
    THEN <<us, [error |-> "Not authenticated"]>>
    ELSE IF ProfileUpdates(args) = {}
    THEN <<us, [ok |-> TRUE]>>
    ELSE <<PatchUser(us, caller, args), [ok |-> TRUE]>>

\* users.updateProfileInternal
updateProfileInternal(us, userId, args) ==
    IF ProfileUpdates(args) = {} THEN us ELSE PatchUser(us, userId, args)

\* usersActions.updateProfile: <<the new users table, the result>>
updateProfileAction(us, caller, args) ==
    IF getAuthUserId(caller) = NoUser
    THEN <<us, [error |-> "Not authenticated"]>>
    ELSE <<updateProfileInternal(us, caller, args), [ok |-> TRUE]>>

AddToFavorites(caller, pokemonId) ==
    /\ favorites' = addToFavorites(users, favorites, caller, pokemonId)[1]
    /\ lastOp' = [op |-> "addToFavorites", caller |-> caller,
                  pokemonId |-> pokemonId,
                  result |-> addToFavorites(users, favorites, caller, pokemonId)[2]]
    /\ UNCHANGED <<cacheVars, users, fetchVars, uiVars>>

RemoveFromFavorites(caller, pokemonId) ==
    /\ favorites' = removeFromFavorites(users, favorites, caller, pokemonId)[1]
    /\ lastOp' = [op |-> "removeFromFavorites", caller |-> caller,
                  pokemonId |-> pokemonId,
                  result |-> removeFromFavorites(users, favorites, caller, pokemonId)[2]]
    /\ UNCHANGED <<cacheVars, users, fetchVars, uiVars>>

GetFavorites(caller) ==
    /\ lastOp' = [op |-> "getFavorites", caller |-> caller,
                  result |-> getFavorites(users, pokemon, favorites, caller)]
    /\ UNCHANGED <<cacheVars, favVars, fetchVars, uiVars>>

UpdateProfile(caller, args) ==
    /\ users' = updateProfile(users, caller, args)[1]
    /\ lastOp' = [op |-> "updateProfile", caller |-> caller, args |-> args,
                  result |-> updateProfile(users, caller, args)[2]]
    /\ UNCHANGED <<cacheVars, favorites, fetchVars, uiVars>>

UpdateProfileAction(caller, args) ==
    /\ users' = updateProfileAction(users, caller, args)[1]
    /\ lastOp' = [op |-> "updateProfileAction", caller |-> caller,
                  args |-> args,
                  result |-> updateProfileAction(users, caller, args)[2]]
    /\ UNCHANGED <<cacheVars, favorites, fetchVars, uiVars>>

-----------------------------------------------------------------------------
(* The client: the Pokedex page and its PokemonSearch component.           *)
(*                                                                         *)
(* An event (a click, a key, a timer, a query result) is one step: the     *)
(* handler, the render it causes and the effects of that render.  State    *)
(* updates made in one handler are applied together.                       *)
(*                                                                         *)
(* page.pokemonData is what useQuery(api.pokemon.list, args) returned to   *)
(* the last render: NULL (undefined) while the result for args is awaited. *)
(* page.selectedGeneration is <<>> (undefined) or [generation |-> g].      *)
(* search.timers holds the pending setTimeout callbacks of the debounce    *)
(* effect, each with the text it closed over and the time left; search     *)
(* .unchangedMs is the time since the text of the box last changed (or     *)
(* since the box was mounted), counted up to DEBOUNCE_MS.                  *)

BATCH_LIMIT == 30
DEBOUNCE_MS == 300
REFRESH_LIMIT == 1025

\* the signed-in user of the client
Viewer == "ash"

InitPage ==
    [searchQuery |-> <<>>, selectedTypes |-> <<>>, selectedGeneration |-> <<>>,
     showFavorites |-> FALSE, isRefreshing |-> FALSE, offset |-> 0,
     items |-> <<>>, hasMore |-> TRUE, isLoadingMore |-> FALSE,
     pokemonData |-> NULL]

\* useEffect(() => { const t = setTimeout(() => onSearch(localSearch), 300);
\*                   return () => clearTimeout(t) }, [localSearch, onSearch])
DebounceTimer(text) == [text |-> text, remaining |-> DEBOUNCE_MS]

\* PokemonSearch as mounted with the page's searchQuery
MountSearch(searchQuery) ==
    [mounted |-> TRUE, localSearch |-> searchQuery,
     timers |-> {DebounceTimer(searchQuery)}, unchangedMs |-> 0]

InitSearch == MountSearch(InitPage.searchQuery)

\* Mutant: the effect has no cleanup, so the earlier timers stay pending.
DebounceEffect_NoCleanup(s) ==
    IF s.mounted
    THEN [s EXCEPT !.timers = @ \cup {DebounceTimer(s.localSearch)}]
    ELSE s

\* The debounce effect runs again: its cleanup clears the pending timer
\* and a new one is set.
DebounceEffect(s) ==
    IF s.mounted
    THEN [s EXCEPT !.timers = {DebounceTimer(s.localSearch)}]
    ELSE s

\* The page has rendered again.  handleSearch is a new function in every
\* render of the page, so the effect's dependency onSearch has changed.
PageRendered(s, before, after) ==
    IF after = before THEN s
    ELSE IF after.showFavorites
    THEN [s EXCEPT !.mounted = FALSE, !.timers = {}]
    ELSE IF ~s.mounted THEN MountSearch(after.searchQuery)
    ELSE DebounceEffect(s)

\* selectedTypes.join(",")
RECURSIVE join(_)
join(a) ==
    IF a = <<>> THEN <<>>
    ELSE IF Len(a) = 1 THEN a[1]
    ELSE join(SubSeq(a, 1, Len(a) - 1)) \o <<",">> \o a[Len(a)]

\* the dependencies of the reset effect
ResetDeps(pg) ==
    [searchQuery |-> pg.searchQuery,
     selectedGeneration |-> pg.selectedGeneration,
     showFavorites |-> pg.showFavorites,
     selectedTypes |-> join(pg.selectedTypes)]

\* the arguments of useConvexQuery(api.pokemon.list, {...})
QueryArgs(pg) ==
    Merge(Merge(Merge(
        [limit  |-> IF pg.showFavorites THEN 0 ELSE BATCH_LIMIT,
         offset |-> IF pg.showFavorites THEN 0 ELSE pg.offset],
        IF Len(pg.searchQuery) > 0 THEN [search |-> pg.searchQuery] ELSE <<>>),
        IF Len(pg.selectedTypes) > 0 THEN [types |-> pg.selectedTypes]
        ELSE <<>>),
        pg.selectedGeneration)

\* useEffect(() => { setItems([]); setOffset(0); setHasMore(true);
\*                   setIsLoadingMore(false) }, [...])
resetEffect(pg) ==
    [pg EXCEPT !.items = <<>>, !.offset = 0, !.hasMore = TRUE,
               !.isLoadingMore = FALSE]

\* the rows of rows whose pokemonId is not in seen, in their order
Unseen(rows, seen) ==
    Pick(rows, {i \in 1..Len(rows) : rows[i].pokemonId \notin seen})

\* The append effect, run when pokemonData has changed.
appendEffect(pg) ==
    IF pg.showFavorites \/ pg.pokemonData = NULL THEN pg
    ELSE [pg EXCEPT
            !.items = @ \o Unseen(pg.pokemonData.pokemon,
                                  {@[i].pokemonId : i \in 1..Len(@)}),
            !.hasMore = Len(pg.items) + Len(pg.pokemonData.pokemon)
                            < pg.pokemonData.total,
            !.isLoadingMore = FALSE]

\* The render after the handlers have set new, with its effects.  When a
\* dependency of the reset effect has changed, the arguments of the query
\* have changed with it, so the hook returns undefined, the reset effect
\* runs, and the render it causes asks for offset 0.
Rendered(pg, new) ==
    IF ResetDeps(new) = ResetDeps(pg) THEN new
    ELSE [resetEffect(new) EXCEPT !.pokemonData = NULL]

\* handleSearch(query)
handleSearch(pg, query) == Rendered(pg, [pg EXCEPT !.searchQuery = query])

\* handleFilterChange(filters); filters.generation may be absent
handleFilterChange(pg, filters) ==
    Rendered(pg, [pg EXCEPT
        !.selectedTypes = filters.types,
        !.selectedGeneration =
            IF "generation" \in DOMAIN filters
            THEN [generation |-> filters.generation] ELSE <<>>])

\* onFavoritesToggle={() => setShowFavorites(!showFavorites)}
onFavoritesToggle(pg) ==
    Rendered(pg, [pg EXCEPT !.showFavorites = ~@])

\* handleDataRefresh up to its end: fetchPokemonData(...) is called and not
\* awaited, so the finally block runs in the same turn.
handleDataRefresh(pg) ==
    LET started == [pg EXCEPT !.isRefreshing = TRUE]
    IN  [started EXCEPT !.isRefreshing = FALSE]

isInitialLoading(pg) ==
    ~pg.showFavorites /\ pg.pokemonData = NULL /\ Len(pg.items) = 0

displayPokemon(pg) ==
    IF pg.showFavorites
    THEN getFavorites(users, pokemon, favorites, Viewer) ELSE pg.items

\* the page shows the "No Pokemon data found" alert with its button
AlertShown(pg) ==
    /\ ~isInitialLoading(pg)
    /\ Len(displayPokemon(pg)) = 0
    /\ IF pg.pokemonData = NULL THEN TRUE ELSE pg.pokemonData.total = 0

\* The user edits the text of the search box.
TypeText(text) ==
    /\ search.mounted
    /\ text # search.localSearch
    /\ search' = [DebounceEffect([search EXCEPT !.localSearch = text])
                    EXCEPT !.unchangedMs = 0]
    /\ UNCHANGED <<cacheVars, favVars, fetchVars, lastOp, page>>

\* d milliseconds pass.
Tick(d) ==
    /\ search.mounted
    /\ search' = [search EXCEPT
          !.timers = {[t EXCEPT !.remaining = IF @ > d THEN @ - d ELSE 0] :
                         t \in @},
          !.unchangedMs = IF @ + d < DEBOUNCE_MS THEN @ + d ELSE DEBOUNCE_MS]
    /\ UNCHANGED <<cacheVars, favVars, fetchVars, lastOp, page>>

\* A timer of the debounce effect fires: onSearch(localSearch), which is
\* the page's handleSearch.
TimerFires(t) ==
    /\ t \in search.timers
    /\ t.remaining = 0
    /\ lastOp' = [op |-> "onSearch", query |-> t.text,
                  localSearch |-> search.localSearch,
                  unchangedMs |-> search.unchangedMs]
    /\ page' = handleSearch(page, t.text)
    /\ search' = PageRendered([search EXCEPT !.timers = @ \ {t}], page, page')
    /\ UNCHANGED <<cacheVars, favVars, fetchVars>>

\* onSearch(query) from the search box
HandleSearch(query) ==
    /\ ~page.showFavorites
    /\ page' = handleSearch(page, query)
    /\ search' = PageRendered(search, page, page')
    /\ UNCHANGED <<cacheVars, favVars, fetchVars, lastOp>>

\* onFilterChange(filters) from the search box
HandleFilterChange(filters) ==
    /\ ~page.showFavorites
    /\ page' = handleFilterChange(page, filters)
    /\ search' = PageRendered(search, page, page')
    /\ UNCHANGED <<cacheVars, favVars, fetchVars, lastOp>>

\* The favorites button of the header.
OnFavoritesToggle ==
    /\ page' = onFavoritesToggle(page)
    /\ search' = PageRendered(search, page, page')
    /\ UNCHANGED <<cacheVars, favVars, fetchVars, lastOp>>

\* The Load More button, shown when !showFavorites && hasMore and not
\* while isLoadingMore.  The new offset changes the query's arguments.
LoadMore ==
    /\ ~page.showFavorites
    /\ page.hasMore
    /\ ~page.isLoadingMore
    /\ page' = [page EXCEPT !.isLoadingMore = TRUE,
                            !.offset = @ + BATCH_LIMIT,
                            !.pokemonData = NULL]
    /\ search' = PageRendered(search, page, page')
    /\ UNCHANGED <<cacheVars, favVars, fetchVars, lastOp>>

\* The query's result for the page's arguments arrives: the first for
\* these arguments, or a new one after the store has changed.
QueryResult ==
    /\ page.pokemonData # list(pokemon, QueryArgs(page))
    /\ page' = appendEffect(
                  [page EXCEPT !.pokemonData = list(pokemon, QueryArgs(page))])
    /\ search' = PageRendered(search, page, page')
    /\ UNCHANGED <<cacheVars, favVars, fetchVars, lastOp>>

\* handleFavoriteToggle(pokemonId) of the signed-in viewer
HandleFavoriteToggle(pokemonId) ==
    IF FavRows(favorites, Viewer, pokemonId) # {}
    THEN RemoveFromFavorites(Viewer, pokemonId)
    ELSE AddToFavorites(Viewer, pokemonId)

\* The "Fetch Pokemon Data" button of the alert, disabled while
\* isRefreshing: handleDataRefresh starts the action for call slot c.
HandleDataRefresh(c) ==
    /\ AlertShown(page)
    /\ ~page.isRefreshing
    /\ page' = handleDataRefresh(page)
    /\ StartFetch(c, [limit |-> REFRESH_LIMIT, offset |-> 0])

-----------------------------------------------------------------------------
(* The fetcher's specification: calls of fetchAndCachePokemon, one after   *)
(* the other, against an upstream that answers a request with any status.  *)
(* A run starts from the empty store, or from a store in which an earlier  *)
(* refresh has cached the ids of WarmIds.  A call takes up to MaxLimit ids *)
(* at the low or the high end of the id range; from the warm store a run   *)
(* may instead be one call of BigLimit ids, which is more than one batch   *)
(* (the warm ids keep the interleavings of its parallel tasks bounded).    *)

MaxCalls == 2
MaxLimit == 2
NumSlots == 2

Calls == 1..NumSlots

FetchOffsets == {0, 1, MAX_POKEMON_ID - 1, MAX_POKEMON_ID}

SmallArgs ==
    {[limit |-> l, offset |-> o] : l \in 1..MaxLimit, o \in FetchOffsets}

BigLimit == CONCURRENCY_DEFAULT + 1

BigArgs == {[limit |-> BigLimit, offset |-> 0]}

WarmIds == 3..CONCURRENCY_DEFAULT

\* What the upstream may answer to the two requests for an id:
\* <<detail status, species status, height>>
UpstreamAnswers == Statuses \X Statuses \X UpstreamHeights

\* The tables after cachePokemon has run for the ids lo..hi, in that order.
RECURSIVE WarmPokemon(_, _)
WarmPokemon(lo, hi) ==
    IF hi < lo THEN <<>>
    ELSE cachePokemonPk(WarmPokemon(lo, hi - 1), PokemonPayload(hi, 4))

RECURSIVE WarmSpecies(_, _)
WarmSpecies(lo, hi) ==
    IF hi < lo THEN <<>>
    ELSE cachePokemonSp(WarmSpecies(lo, hi - 1), PokemonPayload(hi, 4),
                        SpeciesPayload(hi))

\* The type table after cacheTypes has run for the first n catalog entries.
RECURSIVE WarmTypes(_)
WarmTypes(n) ==
    IF n = 0 THEN <<>>
    ELSE cacheType(WarmTypes(n - 1), TypeCatalog[n], TypeColor(TypeCatalog[n]))

InitDb ==
    /\ pokemon = <<>>
    /\ pokemonSpecies = <<>>
    /\ pokemonTypes = <<>>
    /\ favorites = <<>>
    /\ users = [u \in Users |-> [name |-> "trainer", image |-> "none.png"]]
    /\ lastOp = NoOp

InitWarm ==
    /\ pokemon = WarmPokemon(Min(WarmIds), Min(WarmIds) + Cardinality(WarmIds) - 1)
    /\ pokemonSpecies = WarmSpecies(Min(WarmIds), Min(WarmIds) + Cardinality(WarmIds) - 1)
    /\ pokemonTypes = WarmTypes(Len(TypeCatalog))
    /\ favorites = <<>>
    /\ users = [u \in Users |-> [name |-> "trainer", image |-> "none.png"]]
    /\ lastOp = NoOp

Init ==
    /\ InitDb \/ InitWarm
    /\ call = [c \in Calls |-> IdleCall]
    /\ task = [c \in Calls |-> <<>>]
    /\ nCalls = 0
    /\ hisui = IdleHisui
    /\ search = InitSearch
    /\ page = InitPage

Settled(c) == call[c].pc \in {"returned", "thrown"}

\* The caller receives the result or the exception of call c.  The async
\* functions the call left running are not cancelled.
Consume(c) ==
    /\ Settled(c)
    /\ call' = [call EXCEPT ![c] = IdleCall]
    /\ UNCHANGED <<cacheVars, favVars, task, nCalls, lastOp, hisui, uiVars>>

SlotFree(c) ==
    /\ call[c].pc = "idle"
    /\ \A id \in DOMAIN task[c] : TaskSettled(task[c][id])

\* The client awaits one call before it makes the next, and the next starts
\* once the async functions the previous one left running have settled.
InSequence(c) ==
    /\ c = 1
    /\ \A d \in Calls : SlotFree(d)

\* From the warm store a run is the long call alone.
FetchPlan(c, args) ==
    /\ nCalls < MaxCalls
    /\ InSequence(c)
    /\ args \in BigArgs <=> WarmIds \subseteq CachedIds(pokemon)
    /\ args \in BigArgs => nCalls = 0

Next ==
    \/ \E c \in Calls, args \in SmallArgs \cup BigArgs :
          FetchPlan(c, args) /\ StartFetch(c, args)
    \/ \E c \in Calls, status \in Statuses : TypesResponse(c, status)
    \/ \E c \in Calls : CacheTypeStep(c)
    \/ \E c \in Calls : \E id \in DOMAIN task[c] : TaskCheck(c, id)
    \/ \E c \in Calls : \E id \in DOMAIN task[c] :
          \E r \in UpstreamAnswers : TaskResponse(c, id, r[1], r[2], r[3])
    \/ \E c \in Calls : \E id \in DOMAIN task[c] : TaskWrite(c, id)
    \/ \E c \in Calls : BatchJoin(c)
    \/ \E c \in Calls : DelayElapsed(c)
    \/ \E c \in Calls : Consume(c)

Spec == Init /\ [][Next]_vars

-----------------------------------------------------------------------------
(* The list query's specification: the cache is filled by cachePokemon     *)
(* for the ids of ListIds, in any order, and list is called with           *)
(* arguments drawn from ListArgs.  A response is received before the store *)
(* is written again, so lastOp.result is the answer for the store as it is.*)

ListIds == {6, 25, 125, 152}

ListSearches == {<<>>, <<"2","5">>, <<"c","h">>, <<"C","H">>}

ListTypes ==
    {<<>>, <<fire>>, <<<<"F","I","R","E">>>>,
     <<<<"E","l","e","c","t","r","i","c">>, grass>>}

ListGenerations == {1, 2, 10}

ListLimits == {0, 1, 2}

ListOffsets == {1, 2}

ListArgs ==
    {Merge(Merge(Merge(Merge(a, b), c), d), e) :
        a \in OptionalArg("search", ListSearches),
        b \in OptionalArg("types", ListTypes),
        c \in OptionalArg("generation", ListGenerations),
        d \in OptionalArg("limit", ListLimits),
        e \in OptionalArg("offset", ListOffsets)}

InitIdle ==
    /\ InitDb
    /\ call = [c \in Calls |-> IdleCall]
    /\ task = [c \in Calls |-> <<>>]
    /\ nCalls = 0
    /\ hisui = IdleHisui
    /\ search = InitSearch
    /\ page = InitPage

NextList ==
    \/ \E id \in ListIds :
          Ready /\ RunCachePokemon(PokemonPayload(id, 4), SpeciesPayload(id))
    \/ \E args \in ListArgs : Ready /\ ListQuery(args)
    \/ Deliver

SpecList == InitIdle /\ [][NextList]_vars

-----------------------------------------------------------------------------
(* The favorites' specification: any caller adds, removes and reads        *)
(* favorites and updates profiles, while cachePokemon caches the ids of    *)
(* FavCachedIds; the ids of FavIds outside it are never cached.            *)

FavIds == {25, 152}

FavCachedIds == {25}

ProfileArgs ==
    {Merge(a, b) : a \in OptionalArg("name", {"red"}),
                   b \in OptionalArg("image", {"red.png"})}

NextFav ==
    \/ \E id \in FavCachedIds, h \in UpstreamHeights :
          Ready /\ RunCachePokemon(PokemonPayload(id, h), SpeciesPayload(id))
    \/ \E caller \in Callers, id \in FavIds :
          Ready /\ AddToFavorites(caller, id)
    \/ \E caller \in Callers, id \in FavIds :
          Ready /\ RemoveFromFavorites(caller, id)
    \/ \E caller \in Callers : Ready /\ GetFavorites(caller)
    \/ \E caller \in Callers, args \in ProfileArgs :
          Ready /\ UpdateProfile(caller, args)
    \/ \E caller \in Callers, args \in ProfileArgs :
          Ready /\ UpdateProfileAction(caller, args)
    \/ Deliver

SpecFav == InitIdle /\ [][NextFav]_vars

-----------------------------------------------------------------------------
(* The generation function's specification: getGenerationFromId is applied *)
(* to any id of the national dex.                                          *)

GenIds == 1..MAX_POKEMON_ID

\* getGenerationFromId(id), as cachePokemon calls it for pokemonData.id
GetGeneration(id) ==
    /\ lastOp' = [op |-> "getGenerationFromId", id |-> id,
                  result |-> getGenerationFromId(id)]
    /\ UNCHANGED <<cacheVars, favVars, fetchVars, uiVars>>

NextGen ==
    \/ \E id \in GenIds : Ready /\ GetGeneration(id)
    \/ Deliver

SpecGen == InitIdle /\ [][NextGen]_vars

-----------------------------------------------------------------------------
(* The id range's specification: calls of fetchAndCachePokemon, one after  *)
(* the other from the empty store, whose limit or offset is 0, left out,   *)
(* or at or past the last id.  The arguments are those whose id list has   *)
(* at most MaxLimit ids.                                                   *)

RangeLimits == {0} \cup 1..MaxLimit

RangeOffsets == {MAX_POKEMON_ID - 1, MAX_POKEMON_ID, MAX_POKEMON_ID + 1}

RangeArgs ==
    {Merge(a, b) : a \in OptionalArg("limit", RangeLimits),
                   b \in OptionalArg("offset", {0} \cup RangeOffsets)}

RangePlan(c, args) ==
    /\ nCalls < MaxCalls
    /\ InSequence(c)
    /\ Len(TargetIds(OrDefault(args, "limit", DEFAULT_FETCH_LIMIT),
                      OrDefault(args, "offset", 0))) <= MaxLimit

NextRange ==
    \/ \E c \in Calls, args \in RangeArgs :
          RangePlan(c, args) /\ StartFetch(c, args)
    \/ \E c \in Calls, status \in Statuses : TypesResponse(c, status)
    \/ \E c \in Calls : CacheTypeStep(c)
    \/ \E c \in Calls : \E id \in DOMAIN task[c] : TaskCheck(c, id)
    \/ \E c \in Calls : \E id \in DOMAIN task[c] :
          \E r \in UpstreamAnswers : TaskResponse(c, id, r[1], r[2], r[3])
    \/ \E c \in Calls : \E id \in DOMAIN task[c] : TaskWrite(c, id)
    \/ \E c \in Calls : BatchJoin(c)
    \/ \E c \in Calls : DelayElapsed(c)
    \/ \E c \in Calls : Consume(c)

SpecRange == InitIdle /\ [][NextRange]_vars

-----------------------------------------------------------------------------
(* The regional fetch's specification: one call of fetchHisuiPokemon from  *)
(* the empty store.  The upstream answers each request with any status,    *)
(* and the regional dex with HisuiDex or with no entry.  HisuiDex has more *)
(* entries than one batch; the entries without a species name, which the   *)
(* action returns from at once, keep the interleavings of a batch bounded. *)

Nameless(n) == [k \in 1..n |-> DexEntry(<<>>)]

HisuiDex ==
    <<DexEntry(pikachu), DexEntry(growlithe)>>
    \o Nameless(HISUI_CONCURRENCY - 2)
    \o <<DexEntry(rowlet)>>

HisuiDexes == {<<>>, HisuiDex}

NextHisui ==
    \/ HisuiStart
    \/ \E status \in Statuses : HisuiTypesResponse(status)
    \/ HisuiCacheTypeStep
    \/ \E status \in Statuses, dex \in HisuiDexes :
          HisuiDexResponse(status, dex)
    \/ \E k \in DOMAIN hisui.tasks, status \in Statuses :
          HisuiSpeciesResponse(k, status)
    \/ \E k \in DOMAIN hisui.tasks, status \in Statuses,
          h \in UpstreamHeights : HisuiPokemonResponse(k, status, h)
    \/ \E k \in DOMAIN hisui.tasks : HisuiWrite(k)
    \/ \E k \in DOMAIN hisui.tasks : HisuiWriteFails(k)
    \/ HisuiBatchJoin
    \/ HisuiDelayElapsed

SpecHisui == InitIdle /\ [][NextHisui]_vars

-----------------------------------------------------------------------------
(* The concurrent specification: calls of fetchAndCachePokemon for the one *)
(* id of RaceArgs start in any slot while the others run, together with a  *)
(* call of fetchHisuiPokemon whose regional dex lists the species of that  *)
(* id.  Each runQuery and each runMutation is one step; the steps of the   *)
(* calls interleave freely.                                                *)

RaceId == PokemonIdByName(pikachu)

RaceArgs == [limit |-> 1, offset |-> RaceId - 1]

RaceDex == <<DexEntry(pikachu)>>

NextRace ==
    \/ \E c \in Calls : nCalls < MaxCalls /\ StartFetch(c, RaceArgs)
    \/ \E c \in Calls, status \in Statuses : TypesResponse(c, status)
    \/ \E c \in Calls : CacheTypeStep(c)
    \/ \E c \in Calls : \E id \in DOMAIN task[c] : TaskCheck(c, id)
    \/ \E c \in Calls : \E id \in DOMAIN task[c] :
          \E r \in UpstreamAnswers : TaskResponse(c, id, r[1], r[2], r[3])
    \/ \E c \in Calls : \E id \in DOMAIN task[c] : TaskWrite(c, id)
    \/ \E c \in Calls : BatchJoin(c)
    \/ \E c \in Calls : DelayElapsed(c)
    \/ HisuiStart
    \/ \E status \in Statuses : HisuiTypesResponse(status)
    \/ HisuiCacheTypeStep
    \/ \E status \in Statuses : HisuiDexResponse(status, RaceDex)
    \/ \E k \in DOMAIN hisui.tasks, status \in Statuses :
          HisuiSpeciesResponse(k, status)
    \/ \E k \in DOMAIN hisui.tasks, status \in Statuses,
          h \in UpstreamHeights : HisuiPokemonResponse(k, status, h)
    \/ \E k \in DOMAIN hisui.tasks : HisuiWrite(k)
    \/ \E k \in DOMAIN hisui.tasks : HisuiWriteFails(k)
    \/ HisuiBatchJoin
    \/ HisuiDelayElapsed

SpecRace == InitIdle /\ [][NextRace]_vars

-----------------------------------------------------------------------------
(* The burst specification: one call of fetchAndCachePokemon on a store    *)
(* that holds BurstWarmIds.  The call asks for one id more than a default  *)
(* batch, of which the ids below the warm ones are fetched in parallel, or *)
(* for two ids on either side of the Paldea boundary.                      *)

BurstWarmIds == 6..CONCURRENCY_DEFAULT

BurstArgs ==
    BigArgs \cup {[limit |-> 2, offset |-> o] :
                     o \in {PALDEA_START - 2, PALDEA_START - 1}}

InitBurst ==
    /\ pokemon = WarmPokemon(Min(BurstWarmIds), CONCURRENCY_DEFAULT)
    /\ pokemonSpecies = WarmSpecies(Min(BurstWarmIds), CONCURRENCY_DEFAULT)
    /\ pokemonTypes = WarmTypes(Len(TypeCatalog))
    /\ favorites = <<>>
    /\ users = [u \in Users |-> [name |-> "trainer", image |-> "none.png"]]
    /\ lastOp = NoOp
    /\ call = [c \in Calls |-> IdleCall]
    /\ task = [c \in Calls |-> <<>>]
    /\ nCalls = 0
    /\ hisui = IdleHisui
    /\ search = InitSearch
    /\ page = InitPage

\* The upstream answers both requests of an id, or fails the detail request.
BurstAnswers ==
    {r \in UpstreamAnswers : ok(r[2]) /\ r[3] = Min(UpstreamHeights)}

NextBurst ==
    \/ \E c \in Calls, args \in BurstArgs :
          nCalls = 0 /\ InSequence(c) /\ StartFetch(c, args)
    \/ \E c \in Calls, status \in Statuses : TypesResponse(c, status)
    \/ \E c \in Calls : CacheTypeStep(c)
    \/ \E c \in Calls : \E id \in DOMAIN task[c] : TaskCheck(c, id)
    \/ \E c \in Calls : \E id \in DOMAIN task[c] :
          \E r \in BurstAnswers : TaskResponse(c, id, r[1], r[2], r[3])
    \/ \E c \in Calls : \E id \in DOMAIN task[c] : TaskWrite(c, id)
    \/ \E c \in Calls : BatchJoin(c)
    \/ \E c \in Calls : DelayElapsed(c)
    \/ \E c \in Calls : Consume(c)

SpecBurst == InitBurst /\ [][NextBurst]_vars

-----------------------------------------------------------------------------
(* The type table's specification: cacheType is called, from the empty     *)
(* table, with names in several spellings and with any of TypeArgColors.   *)

TypeArgNames ==
    {fire, <<"F","i","r","e">>, <<" ","F","I","R","E"," ">>,
     electric, <<"E","l","e","c","t","r","i","c"," ">>, stellar}

TypeArgColors == {TypeColor(fire), TypeColor(electric), FALLBACK_COLOR}

NextTypes ==
    \/ \E name \in TypeArgNames, color \in TypeArgColors :
          Ready /\ RunCacheType(name, color)
    \/ Deliver

SpecTypes == InitIdle /\ [][NextTypes]_vars

-----------------------------------------------------------------------------
(* The stored-data specification: the queries are answered from any store  *)
(* the schema admits.  The pokemon table is any sequence of up to          *)
(* MaxStoreRows of StoreRows: rows as cachePokemon writes them, a second   *)
(* row of an id (the duplicates the handlers guard against; the rows of an *)
(* id share the generation, which is derived from the id), a row whose     *)
(* generation was never set, and a row stored under another generation     *)
(* than its id's.                                                          *)

MaxStoreRows == 3

StoreRows ==
    {pokemonDoc(PokemonPayload(25, 4)),
     pokemonDoc(PokemonPayload(25, 7)),
     pokemonDoc(PokemonPayload(152, 4)),
     [pokemonDoc(PokemonPayload(153, 4)) EXCEPT !.generation = 0],
     [pokemonDoc(PokemonPayload(6, 4)) EXCEPT !.generation = 2]}

StoreTables == UNION {[1..n -> StoreRows] : n \in 0..MaxStoreRows}

StoreSpecies ==
    {<<>>,
     <<speciesDoc(PokemonPayload(25, 4), SpeciesPayload(25)),
       [speciesDoc(PokemonPayload(25, 4), SpeciesPayload(25))
           EXCEPT !.captureRate = 0]>>}

StoreFavorites ==
    {<<>>, <<[userId |-> "ash", pokemonId |-> 25],
             [userId |-> "ash", pokemonId |-> 152]>>,
     <<[userId |-> "misty", pokemonId |-> 152],
       [userId |-> "misty", pokemonId |-> 25]>>}

StoreIds == {6, 25, 152, 153}

StoreArgs ==
    {Merge(Merge(a, b), c) :
        a \in OptionalArg("generation", {-1, 0, 1, 2, 10}),
        b \in OptionalArg("limit", {1}),
        c \in OptionalArg("offset", {1})}

InitStore ==
    /\ pokemon \in StoreTables
    /\ pokemonSpecies \in StoreSpecies
    /\ pokemonTypes = <<>>
    /\ favorites \in StoreFavorites
    /\ users = [u \in Users |-> [name |-> "trainer", image |-> "none.png"]]
    /\ lastOp = NoOp
    /\ call = [c \in Calls |-> IdleCall]
    /\ task = [c \in Calls |-> <<>>]
    /\ nCalls = 0
    /\ hisui = IdleHisui
    /\ search = InitSearch
    /\ page = InitPage

NextStore ==
    \/ \E args \in StoreArgs : Ready /\ ListQuery(args)
    \/ \E id \in StoreIds : Ready /\ GetById(id)
    \/ \E caller \in Callers : Ready /\ GetFavorites(caller)
    \/ Deliver

SpecStore == InitStore /\ [][NextStore]_vars

-----------------------------------------------------------------------------
(* The public API's specification: the queries and mutations of pokemon.ts *)
(* and users.ts are called by any caller while the internal mutations      *)
(* cachePokemon and cacheType, run by the fetch actions, fill the store.    *)

ApiListArgs == {<<>>, [generation |-> 1, limit |-> 1]}

NextApi ==
    \/ \E id \in FavCachedIds, h \in UpstreamHeights :
          Ready /\ RunCachePokemon(PokemonPayload(id, h), SpeciesPayload(id))
    \/ Ready /\ RunCacheType(fire, TypeColor(fire))
    \/ \E args \in ApiListArgs : Ready /\ ListQuery(args)
    \/ \E id \in FavIds : Ready /\ GetById(id)
    \/ Ready /\ GetTypes
    \/ \E caller \in Callers : Ready /\ GetFavorites(caller)
    \/ \E caller \in Callers, id \in FavIds :
          Ready /\ AddToFavorites(caller, id)
    \/ \E caller \in Callers, id \in FavIds :
          Ready /\ RemoveFromFavorites(caller, id)
    \/ \E caller \in Callers, args \in ProfileArgs :
          Ready /\ UpdateProfile(caller, args)
    \/ Deliver

SpecApi == InitIdle /\ [][NextApi]_vars

-----------------------------------------------------------------------------
(* The fetcher under fairness: every upstream request is answered, every   *)
(* runQuery and runMutation returns and every timer fires, so a step of a  *)
(* call that stays possible is eventually taken.                           *)

\* A step of call c other than its start and the delivery of its outcome.
Progress(c) ==
    \/ \E status \in Statuses : TypesResponse(c, status)
    \/ CacheTypeStep(c)
    \/ \E id \in DOMAIN task[c] : TaskCheck(c, id)
    \/ \E id \in DOMAIN task[c] :
          \E r \in UpstreamAnswers : TaskResponse(c, id, r[1], r[2], r[3])
    \/ \E id \in DOMAIN task[c] : TaskWrite(c, id)
    \/ BatchJoin(c)
    \/ DelayElapsed(c)

\* A run is one call, of any plan of the fetcher's specification.
NextLive ==
    \/ \E c \in Calls, args \in SmallArgs \cup BigArgs :
          nCalls = 0 /\ FetchPlan(c, args) /\ StartFetch(c, args)
    \/ \E c \in Calls : Progress(c)
    \/ \E c \in Calls : Consume(c)

SpecLive ==
    Init /\ [][NextLive]_vars /\ \A c \in Calls : WF_vars(Progress(c))

-----------------------------------------------------------------------------
(* The search box's specification: the user edits the text, time passes in *)
(* steps of TickSteps, timers fire when they are due or later, and the     *)
(* page renders again when a query result arrives or the favorites view is *)
(* opened or closed.  The store is empty.                                  *)

SearchTexts == {<<>>, <<"2">>, <<"2","5">>}

TickSteps == {DEBOUNCE_MS \div 3, 2 * (DEBOUNCE_MS \div 3)}

NextSearch ==
    \/ \E text \in SearchTexts : TypeText(text)
    \/ \E d \in TickSteps : Tick(d)
    \/ \E t \in search.timers : TimerFires(t)
    \/ QueryResult
    \/ OnFavoritesToggle
    \/ Deliver

SpecSearch == InitIdle /\ [][NextSearch]_vars

-----------------------------------------------------------------------------
(* The page's specification: one client's Pokedex page over a store that   *)
(* is empty or holds the ids 2..BATCH_LIMIT + 2, one more than a page,     *)
(* while cachePokemon runs for the ids of PageWrites on behalf of a fetch  *)
(* action of any client.  The user changes the search and the filters,     *)
(* opens and closes the favorites view, toggles a favorite and clicks Load *)
(* More up to the offset MaxPages * BATCH_LIMIT.                           *)

MaxPages == 2

PageWrites == {1, 2}

PageSearches == {<<>>, <<"2">>}

PageFilters == {[types |-> <<>>], [types |-> <<>>, generation |-> 1]}

InitPageStore ==
    /\ \/ pokemon = <<>> /\ pokemonSpecies = <<>>
       \/ /\ pokemon = WarmPokemon(2, BATCH_LIMIT + 2)
          /\ pokemonSpecies = WarmSpecies(2, BATCH_LIMIT + 2)
    /\ pokemonTypes = <<>>
    /\ favorites = <<>>
    /\ users = [u \in Users |-> [name |-> "trainer", image |-> "none.png"]]
    /\ lastOp = NoOp
    /\ call = [c \in Calls |-> IdleCall]
    /\ task = [c \in Calls |-> <<>>]
    /\ nCalls = 0
    /\ hisui = IdleHisui
    /\ search = InitSearch
    /\ page = InitPage

NextPage ==
    \/ \E id \in PageWrites, h \in UpstreamHeights :
          RunCachePokemon(PokemonPayload(id, h), SpeciesPayload(id))
    \/ \E query \in PageSearches : HandleSearch(query)
    \/ \E filters \in PageFilters : HandleFilterChange(filters)
    \/ OnFavoritesToggle
    \/ page.offset < MaxPages * BATCH_LIMIT /\ LoadMore
    \/ QueryResult
    \/ \E id \in PageWrites : HandleFavoriteToggle(id)

SpecPage == InitPageStore /\ [][NextPage]_vars

-----------------------------------------------------------------------------
(* The refresh button's specification: one client's page over the empty    *)
(* store.  The user clicks "Fetch Pokemon Data" whenever the button is     *)
(* shown and enabled, up to MaxCalls times, and opens and closes the       *)
(* favorites view; each fetch action started runs its type refresh and     *)
(* enters its first batch, or throws.                                      *)

NextRefresh ==
    \/ \E c \in Calls : nCalls < MaxCalls /\ HandleDataRefresh(c)
    \/ \E c \in Calls, status \in Statuses : TypesResponse(c, status)
    \/ \E c \in Calls : CacheTypeStep(c)
    \/ \E c \in Calls : Consume(c)
    \/ QueryResult
    \/ OnFavoritesToggle

SpecRefresh == InitIdle /\ [][NextRefresh]_vars

-----------------------------------------------------------------------------
(* Properties of the fetcher (Spec) *)

\* The ids a call with these arguments is asked for: offset+1 .. offset+limit,
\* as far as they are <= 1025.
RequestedIds(args) ==
    {id \in (args.offset + 1)..(args.offset + args.limit) : id <= MAX_POKEMON_ID}

HasPokemon(id) == \E k \in 1..Len(pokemon) : pokemon[k].pokemonId = id

HasSpecies(id) ==
    \E k \in 1..Len(pokemonSpecies) : pokemonSpecies[k].pokemonId = id

HasType(name) == \E k \in 1..Len(pokemonTypes) : pokemonTypes[k].name = name

RangeCached(c) ==
    \A id \in RequestedIds(call[c].args) : HasPokemon(id) /\ HasSpecies(id)

CatalogCached == \A k \in 1..Len(TypeCatalog) : HasType(TypeCatalog[k])

C2_OverlappingCalls ==
    /\ \A k1 \in 1..Len(pokemon), k2 \in 1..Len(pokemon) :
          pokemon[k1].pokemonId = pokemon[k2].pokemonId => k1 = k2
    /\ \A c \in Calls :
          call[c].pc # "idle" =>
            \A k \in 1..Len(call[c].atStart) :
               /\ call[c].atStart[k].pokemonId \notin call[c].fetched
               /\ \E j \in 1..Len(pokemon) : pokemon[j] = call[c].atStart[k]
    /\ \A c \in Calls :
          call[c].pc = "returned" =>
            call[c].result.cached = Cardinality(RequestedIds(call[c].args))

\* The second call has returned success: one of its ids was cached by the
\* first call and skipped, another was fetched, and cached counts both.
C2_Witness ==
    \E c \in Calls :
        /\ nCalls = 2
        /\ call[c].pc = "returned"
        /\ \E k \in 1..Len(call[c].atStart) :
              call[c].atStart[k].pokemonId \in RequestedIds(call[c].args)
        /\ call[c].fetched # {}
        /\ call[c].result.cached > Cardinality(call[c].fetched)

-----------------------------------------------------------------------------
(* Properties of the list query (SpecList).  A response is judged against  *)
(* the pokemon table it was computed from: no write is served while the    *)
(* response is on its way.  limit and offset are the values the handler    *)
(* works with: limit 20 when the argument is absent or 0, offset 0 when    *)
(* absent.                                                                 *)

ListLimit(args) ==
    IF "limit" \in DOMAIN args /\ args.limit # 0 THEN args.limit
    ELSE DEFAULT_LIST_LIMIT

ListOffset(args) == IF "offset" \in DOMAIN args THEN args.offset ELSE 0

Unfiltered(args) == DOMAIN args \cap {"generation", "search", "types"} = {}

GenMatch(k, args) ==
    \/ "generation" \notin DOMAIN args
    \/ args.generation <= 0
    \/ pokemon[k].generation = args.generation
    \/ /\ \A j \in 1..Len(pokemon) : pokemon[j].generation # args.generation
       /\ GEN_RANGES(args.generation) # NULL
       /\ pokemon[k].pokemonId >= GEN_RANGES(args.generation).start
       /\ pokemon[k].pokemonId <= GEN_RANGES(args.generation).end

\* lowercased name contains lowercased q, or the decimal id contains q
SearchHit(k, q) ==
    \/ includes(toLowerCase(pokemon[k].name), toLowerCase(q))
    \/ includes(toString(pokemon[k].pokemonId), q)

SearchMatch(k, args) ==
    \/ "search" \notin DOMAIN args
    \/ args.search = <<>>
    \/ SearchHit(k, args.search)

\* one of the record's types equals one of the requested types, case aside
TypeHit(k, types) ==
    \E i \in 1..Len(pokemon[k].types), j \in 1..Len(types) :
        toLowerCase(pokemon[k].types[i]) = toLowerCase(types[j])

TypeMatch(k, args) ==
    \/ "types" \notin DOMAIN args
    \/ args.types = <<>>
    \/ TypeHit(k, args.types)

\* positions of the rows that pass every filter of args
Matching(args) ==
    {k \in 1..Len(pokemon) :
        GenMatch(k, args) /\ SearchMatch(k, args) /\ TypeMatch(k, args)}

\* the matching row with exactly p - 1 matching rows of smaller id
RankedAt(args, p) ==
    pokemon[CHOOSE k \in Matching(args) :
               Cardinality({j \in Matching(args) :
                   pokemon[j].pokemonId < pokemon[k].pokemonId}) = p - 1]

ExpectedPage(args) ==
    LET total == Cardinality(Matching(args))
        last  == IF ListOffset(args) + ListLimit(args) < total
                 THEN ListOffset(args) + ListLimit(args) ELSE total
        n     == IF last > ListOffset(args) THEN last - ListOffset(args) ELSE 0
    IN  [i \in 1..n |-> RankedAt(args, ListOffset(args) + i)]

C4_SearchMatches ==
    (lastOp.op = "list" /\ "search" \in DOMAIN lastOp.args
                        /\ lastOp.args.search # <<>>) =>
        LET a    == lastOp.args
            r    == lastOp.result
            Hits == {pokemon[k] : k \in
                       {k \in 1..Len(pokemon) :
                           /\ GenMatch(k, a) /\ TypeMatch(k, a)
                           /\ SearchHit(k, a.search)}}
        IN  /\ r.total = Cardinality(Hits)
            /\ \A i \in 1..Len(r.pokemon) : r.pokemon[i] \in Hits
            /\ (ListOffset(a) = 0 /\ ListLimit(a) >= r.total) =>
                  {r.pokemon[i] : i \in 1..Len(r.pokemon)} = Hits

\* The search "25" has returned 25 and 125, and left out a cached 152.
C4_Witness ==
    /\ lastOp.op = "list"
    /\ "search" \in DOMAIN lastOp.args
    /\ lastOp.args.search = <<"2", "5">>
    /\ {lastOp.result.pokemon[i].pokemonId :
           i \in 1..Len(lastOp.result.pokemon)} = {25, 125}
    /\ \E k \in 1..Len(pokemon) : pokemon[k].pokemonId = 152

LowerTypes(args) ==
    [f \in DOMAIN args |->
        IF f = "types"
        THEN [k \in 1..Len(args.types) |-> toLowerCase(args.types[k])]
        ELSE args[f]]

\* C5: with a types filter, list returns only records one of whose types
\* equals one of the requested types when both are lowercased, all of them
\* are counted in total, and the response is the one the lowercased filter
\* gets, so the casing of the filter makes no difference.
C5_TypesCaseInsensitive ==
    (lastOp.op = "list" /\ "types" \in DOMAIN lastOp.args
                        /\ lastOp.args.types # <<>>) =>
        LET a == lastOp.args
            r == lastOp.result
        IN  /\ \A i \in 1..Len(r.pokemon) :
                  \E k \in 1..Len(pokemon) :
                      pokemon[k] = r.pokemon[i] /\ TypeHit(k, a.types)
            /\ r.total = Cardinality({k \in 1..Len(pokemon) :
                            /\ GenMatch(k, a) /\ SearchMatch(k, a)
                            /\ TypeHit(k, a.types)})
            /\ r = list(pokemon, LowerTypes(a))

\* The filter "FIRE" has returned the record stored with type "Fire", and
\* left out a cached record of another type.
C5_Witness ==
    /\ lastOp.op = "list"
    /\ "types" \in DOMAIN lastOp.args
    /\ lastOp.args.types = <<<<"F", "I", "R", "E">>>>
    /\ \E i \in 1..Len(lastOp.result.pokemon) :
          /\ lastOp.result.pokemon[i].pokemonId = 6
          /\ lastOp.result.pokemon[i].types[1] = <<"F", "i", "r", "e">>
    /\ lastOp.result.total < Len(pokemon)

-----------------------------------------------------------------------------
(* Properties of favorites and profiles (SpecFav).  A step that serves a   *)
(* request is one that takes lastOp from NoOp to the request's record.     *)

Served(op) == lastOp = NoOp /\ lastOp' # NoOp /\ lastOp'.op = op

\* the number of favorites rows of the pair (u, id)
CountFav(fav, u, id) ==
    Cardinality({i \in 1..Len(fav) :
                    fav[i].userId = u /\ fav[i].pokemonId = id})

Failed(result) == "error" \in DOMAIN result

\* the row counts of every pair but (u, id) are as they were
OtherPairsKept(u, id) ==
    \A v \in Callers, j \in FavIds :
        <<v, j>> # <<u, id>> =>
            CountFav(favorites', v, j) = CountFav(favorites, v, j)

\* C6: for an authenticated user, addToFavorites fails when the pair is
\* already there and removeFromFavorites fails when it is not, both leaving
\* favorites as it was; otherwise add adds exactly one row of that pair and
\* remove removes exactly that pair's row.
C6_AddRemove ==
    [][/\ (Served("addToFavorites") /\ lastOp'.caller \in Users) =>
            IF CountFav(favorites, lastOp'.caller, lastOp'.pokemonId) > 0
            THEN Failed(lastOp'.result) /\ favorites' = favorites
            ELSE /\ ~Failed(lastOp'.result)
                 /\ CountFav(favorites', lastOp'.caller,
                             lastOp'.pokemonId) = 1
                 /\ OtherPairsKept(lastOp'.caller, lastOp'.pokemonId)
       /\ (Served("removeFromFavorites") /\ lastOp'.caller \in Users) =>
            IF CountFav(favorites, lastOp'.caller, lastOp'.pokemonId) = 0
            THEN Failed(lastOp'.result) /\ favorites' = favorites
            ELSE /\ ~Failed(lastOp'.result)
                 /\ CountFav(favorites', lastOp'.caller,
                             lastOp'.pokemonId) = 0
                 /\ OtherPairsKept(lastOp'.caller, lastOp'.pokemonId)
      ]_vars

\* A user's second add of a favorite has failed, the row still there.
C6_Witness ==
    /\ lastOp.op = "addToFavorites"
    /\ lastOp.caller \in Users
    /\ lastOp.result = [error |-> "Pokemon already in favorites"]
    /\ CountFav(favorites, lastOp.caller, lastOp.pokemonId) = 1

\* C7: after any sequence of add and remove requests, favorites holds at
\* most one row for each (user, pokemonId).
C7_OneRowPerPair ==
    \A u \in Callers, id \in FavIds : CountFav(favorites, u, id) <= 1

\* A favorite has been added, removed and added again, next to other rows.
C7_Witness ==
    /\ lastOp.op = "addToFavorites"
    /\ ~Failed(lastOp.result)
    /\ Len(favorites) >= 3
    /\ favorites[Len(favorites)] =
          [userId |-> lastOp.caller, pokemonId |-> lastOp.pokemonId]
    /\ \E i \in 1..Len(favorites) :
          favorites[i].userId = lastOp.caller /\ i < Len(favorites) - 1

\* C8: getFavorites returns, for an authenticated caller, one cached pokemon
\* record for each of the caller's favorited ids that is in the cache and
\* nothing for the others, never a null entry; for an unauthenticated
\* caller it returns the empty list.
C8_GetFavorites ==
    lastOp.op = "getFavorites" =>
        LET r == lastOp.result
        IN  IF lastOp.caller \notin Users THEN r = <<>>
            ELSE /\ \A k \in 1..Len(r) :
                       /\ r[k] # NULL
                       /\ \E j \in 1..Len(pokemon) : pokemon[j] = r[k]
                 /\ \A id \in FavIds :
                       Cardinality({k \in 1..Len(r) : r[k].pokemonId = id}) =
                          IF /\ CountFav(favorites, lastOp.caller, id) > 0
                             /\ \E j \in 1..Len(pokemon) :
                                   pokemon[j].pokemonId = id
                          THEN 1 ELSE 0

\* The caller has a cached and an uncached favorite; one record came back.
C8_Witness ==
    /\ lastOp.op = "getFavorites"
    /\ lastOp.caller \in Users
    /\ \A id \in FavIds : CountFav(favorites, lastOp.caller, id) = 1
    /\ Len(lastOp.result) = 1
    /\ lastOp.result[1].pokemonId \in FavCachedIds

\* C9: served to an unauthenticated caller, addToFavorites,
\* removeFromFavorites and both updateProfile entries fail with an error and
\* leave favorites and users as they were.
C9_Unauthenticated ==
    [][\A op \in {"addToFavorites", "removeFromFavorites",
                  "updateProfile", "updateProfileAction"} :
          (Served(op) /\ lastOp'.caller \notin Users) =>
              /\ Failed(lastOp'.result)
              /\ favorites' = favorites
              /\ users' = users
      ]_vars

\* An unauthenticated updateProfile with a new name has failed, while the
\* tables hold rows it could have touched.
C9_Witness ==
    /\ lastOp.op = "updateProfile"
    /\ lastOp.caller \notin Users
    /\ "name" \in DOMAIN lastOp.args
    /\ Failed(lastOp.result)
    /\ favorites # <<>>

\* C10: an add or remove served to user A leaves the favorites rows of every
\* other user B as they were, and with them what getFavorites returns to B.
C10_Isolation ==
    [][\A op \in {"addToFavorites", "removeFromFavorites"} :
          Served(op) =>
              \A b \in Users \ {lastOp'.caller} :
                  /\ \A id \in FavIds :
                        CountFav(favorites', b, id) = CountFav(favorites, b, id)
                  /\ getFavorites(users', pokemon', favorites', b) =
                        getFavorites(users, pokemon, favorites, b)
      ]_vars

\* A user has removed a favorite that another user also holds, and the
\* other user's row is still there.
C10_Witness ==
    /\ lastOp.op = "removeFromFavorites"
    /\ ~Failed(lastOp.result)
    /\ \E b \in Users \ {lastOp.caller} :
          CountFav(favorites, b, lastOp.pokemonId) = 1

-----------------------------------------------------------------------------
(* Properties of the generation function (SpecGen) *)

\* the last id of each generation, and the id just after it
GenBreakpoints == {151, 251, 386, 493, 649, 721, 809, 905, 1025}

\* C11: for every id in 1..1025 and every generation g of the range table,
\* getGenerationFromId(id) = g exactly when
\* GEN_RANGES[g].start <= id <= GEN_RANGES[g].end.
C11_GenerationMatchesRanges ==
    lastOp.op = "getGenerationFromId" =>
        \A g \in 1..9 :
            lastOp.result = g <=>
                /\ GEN_RANGES(g).start <= lastOp.id
                /\ lastOp.id <= GEN_RANGES(g).end

\* The function has been applied to the id just after a breakpoint other
\* than the first, and has answered the next generation.
C11_Witness ==
    /\ lastOp.op = "getGenerationFromId"
    /\ lastOp.id - 1 \in GenBreakpoints
    /\ lastOp.id > 152
    /\ lastOp.result = getGenerationFromId(lastOp.id - 1) + 1

-----------------------------------------------------------------------------
(* Properties of the id range (SpecRange) *)

\* C12 as stated: a call given limit and offset targets exactly the ids
\* offset+1 .. offset+limit that are <= 1025, and when there is none it has
\* returned {success, cached: 0} at once: no type refresh, no upstream
\* request, no write.
C12_AsStated ==
    \A c \in Calls :
        (call[c].pc # "idle" /\ DOMAIN call[c].args = {"limit", "offset"}) =>
            /\ Range(call[c].ids) = RequestedIds(call[c].args)
            /\ RequestedIds(call[c].args) = {} =>
                  /\ call[c].pc = "returned"
                  /\ call[c].result = [success |-> TRUE, cached |-> 0]
                  /\ call[c].typeIdx = 0
                  /\ call[c].fetched = {}
                  /\ task[c] = <<>>
                  /\ pokemon = call[c].atStart

-----------------------------------------------------------------------------
(* Properties of the fetcher's outcome and of its records (Spec) *)

ERROR_PREFIX == "Failed to fetch Pokemon data: "

\* the error of a failed async function names its id and the non-ok status
\* of the response it names
NamesIdAndStatus(id, t) ==
    /\ t.error.id = id
    /\ ~ok(t.error.status)
    /\ \/ t.error.kind = "pokemon" /\ t.error.status = t.pokemonResponse
       \/ t.error.kind = "species" /\ t.error.status = t.speciesResponse

C13_Outcomes ==
    \A c \in Calls :
        /\ call[c].pc = "returned" =>
              /\ call[c].result.success
              /\ \A id \in DOMAIN task[c] : task[c][id].pc # "failed"
        /\ call[c].pc = "thrown" =>
              /\ call[c].result.prefix = ERROR_PREFIX
              /\ \/ call[c].result.cause.kind = "types"
                 \/ \E id \in DOMAIN task[c] :
                       /\ task[c][id].pc = "failed"
                       /\ task[c][id].error = call[c].result.cause
        /\ call[c].pc # "idle" =>
              \A id \in DOMAIN task[c] :
                  task[c][id].pc = "failed" =>
                      /\ call[c].pc = "thrown"
                      /\ id \in Range(call[c].ids)
                      /\ id \notin CachedIds(call[c].atStart)
                      /\ NamesIdAndStatus(id, task[c][id])

C13_FirstFailure ==
    \A c \in Calls :
        /\ Settled(c) =>
              \/ call'[c].pc = call[c].pc /\ call'[c].result = call[c].result
              \/ call'[c] = IdleCall
        /\ \A id \in DOMAIN task[c] :
              (/\ call[c].pc = "batch"
               /\ task[c][id].pc = "fetch"
               /\ task'[c][id].pc = "failed") =>
                  /\ call'[c].pc = "thrown"
                  /\ call'[c].result.prefix = ERROR_PREFIX
                  /\ call'[c].result.cause = task'[c][id].error

\* C13: a call of fetchAndCachePokemon ends by returning a success summary
\* or by throwing one error, never both, and the outcome does not change
\* afterwards; the error is the first failure's, prefixed with "Failed to
\* fetch Pokemon data: "; a non-ok detail or species response for a
\* requested id that was not cached makes the outcome the error, and the
\* failure's message names that id and status.
C13_SuccessOrOneError == []C13_Outcomes /\ [][C13_FirstFailure]_vars

\* Two requested ids of one batch have failed; the call has thrown the
\* error of one of them, and the other's error is a different one.
C13_Witness ==
    \E c \in Calls :
        /\ call[c].pc = "thrown"
        /\ \E id1 \in DOMAIN task[c], id2 \in DOMAIN task[c] :
              /\ task[c][id1].pc = "failed"
              /\ task[c][id2].pc = "failed"
              /\ task[c][id1].error = call[c].result.cause
              /\ task[c][id2].error # call[c].result.cause
              /\ task[c][id2].error.kind = "species"

\* C14: a pokemon row exists for an id exactly when a pokemonSpecies row
\* exists for it, in every state; an id whose detail or species request
\* failed gets neither row from that attempt.
C14_PokemonIffSpecies ==
    /\ \A id \in CachedIds(pokemon) \cup CachedIds(pokemonSpecies) :
          HasPokemon(id) <=> HasSpecies(id)
    /\ \A c \in Calls :
          call[c].pc # "idle" =>
              \A id \in DOMAIN task[c] :
                  task[c][id].pc = "failed" =>
                      ~HasPokemon(id) /\ ~HasSpecies(id)

\* From the empty store, one id of a batch has been written with both its
\* rows while the other, whose species request alone failed, has none.
C14_Witness ==
    \E c \in Calls :
        /\ call[c].atStart = <<>>
        /\ \E id1 \in DOMAIN task[c], id2 \in DOMAIN task[c] :
              /\ task[c][id1].pc = "done"
              /\ HasPokemon(id1) /\ HasSpecies(id1)
              /\ task[c][id2].pc = "failed"
              /\ ok(task[c][id2].pokemonResponse)
              /\ ~HasPokemon(id2) /\ ~HasSpecies(id2)


-----------------------------------------------------------------------------
(* C15: concurrent writers of one id                                       *)

\* The cachePokemon mutations that commit in this step, as their arguments:
\* the write of an async function of a fetchAndCachePokemon call, or of an
\* entry of the fetchHisuiPokemon call.
CommittingWrites ==
    UNION {{task[c][id] : id \in
               {id \in DOMAIN task[c] : /\ task[c][id].pc = "write"
                                        /\ id \in DOMAIN task'[c]
                                        /\ task'[c][id].pc = "done"}}
           : c \in Calls}
    \cup
    {hisui.tasks[k] : k \in
        {k \in DOMAIN hisui.tasks : /\ hisui.tasks[k].pc = "write"
                                    /\ k \in DOMAIN hisui'.tasks
                                    /\ hisui'.tasks[k].pc = "done"}}

\* The rows of a table for an id, by position.
RowsOf(t, id) == [k \in RowsById(t, id) |-> t[k]]

C15_OneRowPerId ==
    \A id \in CachedIds(pokemon) \cup CachedIds(pokemonSpecies) :
        /\ Cardinality(RowsById(pokemon, id)) <= 1
        /\ Cardinality(RowsById(pokemonSpecies, id)) <= 1

\* When a mutation commits, the rows of its id are its own documents; the
\* rows of an id no mutation commits for stay as they are.
C15_LastWrite ==
    /\ \A w \in CommittingWrites :
          /\ RowsById(pokemon', w.pokemonData.id) # {}
          /\ RowsById(pokemonSpecies', w.pokemonData.id) # {}
          /\ \A k \in RowsById(pokemon', w.pokemonData.id) :
                pokemon'[k] = pokemonDoc(w.pokemonData)
          /\ \A k \in RowsById(pokemonSpecies', w.pokemonData.id) :
                pokemonSpecies'[k] = speciesDoc(w.pokemonData, w.speciesData)
    /\ \A id \in CachedIds(pokemon) \cup CachedIds(pokemon')
                 \cup CachedIds(pokemonSpecies) \cup CachedIds(pokemonSpecies') :
          (\A w \in CommittingWrites : w.pokemonData.id # id)
          => /\ RowsOf(pokemon', id) = RowsOf(pokemon, id)
             /\ RowsOf(pokemonSpecies', id) = RowsOf(pokemonSpecies, id)

\* C15: under any interleaving of the concurrent fetch actions that target
\* one id, the two that passed the cached check before either wrote
\* included, there is at most one pokemon row and one species row for the
\* id, and they hold the values of the last write.
C15_ConcurrentUpsert == []C15_OneRowPerId /\ [][C15_LastWrite]_vars

\* Both calls passed the check while the id was not cached and both have
\* written, as has the regional call; the second writer's values replaced
\* the first's.
C15_Witness ==
    /\ \A c \in Calls : RaceId \in DOMAIN task[c] /\ task[c][RaceId].pc = "done"
    /\ \E k \in DOMAIN hisui.tasks : hisui.tasks[k].pc = "done"
    /\ Cardinality(RowsById(pokemon, RaceId)) = 1
    /\ Cardinality(RowsById(pokemonSpecies, RaceId)) = 1

-----------------------------------------------------------------------------
(* C16: requests in flight                                                 *)

\* The upstream requests of call c that have been issued and not answered.
RECURSIVE RequestsOf(_, _)
RequestsOf(c, ids) ==
    IF ids = {} THEN 0
    ELSE LET id == CHOOSE x \in ids : TRUE IN
         (IF task[c][id].pc = "fetch"
          THEN Cardinality(task[c][id].requests) ELSE 0)
         + RequestsOf(c, ids \ {id})

InFlight(c) == RequestsOf(c, DOMAIN task[c])

\* The async functions of call c that have not returned or thrown.
Running(c) == {id \in DOMAIN task[c] : ~TaskSettled(task[c][id])}

EveryIdPaldea(c) == \A k \in 1..Len(call[c].ids) : call[c].ids[k] >= PALDEA_START

\* The statement as written: at most 8 requests in flight, 16 when every
\* requested id is >= 906.
C16_AsStated ==
    \A c \in Calls :
        InFlight(c) <= IF EveryIdPaldea(c) THEN CONCURRENCY_PALDEA
                       ELSE CONCURRENCY_DEFAULT

\* C16: at any moment a call runs the async functions of at most 8 ids, or
\* of at most 16 when every requested id is >= 906 and only then; each has
\* its detail request and its species request in flight together, so the
\* requests in flight are at most twice that.
C16_RequestsInFlight ==
    \A c \in Calls :
        task[c] # <<>> =>
            /\ call[c].pc # "idle" =>
                    call[c].CONCURRENCY = IF EveryIdPaldea(c)
                                          THEN CONCURRENCY_PALDEA
                                          ELSE CONCURRENCY_DEFAULT
            /\ call[c].pc # "idle" =>
                    Cardinality(DOMAIN task[c]) <= call[c].CONCURRENCY
            /\ Cardinality(Running(c)) <= CONCURRENCY_PALDEA
            /\ InFlight(c) <= 2 * Cardinality(Running(c))
            /\ EveryIdPaldea(c) \/ call[c].pc = "idle"
                    \/ InFlight(c) <= 2 * CONCURRENCY_DEFAULT

\* A call for ids below 906 with more than 8 requests in flight.
C16_Witness ==
    \E c \in Calls :
        /\ call[c].pc = "batch"
        /\ ~EveryIdPaldea(c)
        /\ Len(call[c].ids) > CONCURRENCY_DEFAULT
        /\ InFlight(c) > CONCURRENCY_DEFAULT

-----------------------------------------------------------------------------
(* C17: batches in order, one delay after each                             *)

\* The ids of the batch of call c that starts at position i of its list.
BatchIds(c, i) ==
    {call[c].ids[k] : k \in {k \in 1..Len(call[c].ids) :
                                i < k /\ k <= i + call[c].CONCURRENCY}}

C17_BatchState ==
    \A c \in Calls :
        /\ \A k \in 1..(Len(call[c].ids) - 1) :
              call[c].ids[k + 1] = call[c].ids[k] + 1
        /\ call[c].pc \in {"batch", "delay"} =>
              /\ DOMAIN task[c] = BatchIds(c, call[c].i)
              /\ call[c].i % call[c].CONCURRENCY = 0
              /\ \A k \in 1..call[c].i : HasPokemon(call[c].ids[k])
              /\ call[c].fetched \subseteq
                    {call[c].ids[k] : k \in 1..Len(call[c].ids)}
              /\ \A id \in call[c].fetched :
                    \E b \in BatchIds(c, call[c].i) : id <= b
        /\ call[c].pc = "delay" =>
              \A id \in DOMAIN task[c] : task[c][id].pc \in {"skipped", "done"}

C17_BatchStep ==
    \A c \in Calls :
        \* a batch after the first starts from the delay of the one before
        /\ (call'[c].pc = "batch" /\ call'[c].i # call[c].i) =>
              /\ call[c].pc = "delay"
              /\ call'[c].i = call[c].i + call[c].CONCURRENCY
              /\ \A id \in DOMAIN task[c] :
                    task[c][id].pc \in {"skipped", "done"}
              /\ DOMAIN task'[c] \cap DOMAIN task[c] = {}
              /\ \A id \in DOMAIN task'[c] : task'[c][id].pc = "check"
        \* the delay starts when the whole batch has finished, and only then
        /\ (call[c].pc = "batch" /\ call'[c].pc # "batch") =>
              \/ call'[c].pc = "thrown"
              \/ /\ call'[c].pc = "delay"
                 /\ BatchSettled(c)
                 /\ task'[c] = task[c]
        /\ (call'[c].pc = "delay" /\ call[c].pc # "delay") =>
              call[c].pc = "batch"
        \* the delay ends in the next batch, or in the return after the last
        /\ (call[c].pc = "delay" /\ call'[c].pc # "delay") =>
              /\ call'[c].pc \in {"batch", "returned"}
              /\ call'[c].pc = "returned"
                    <=> call[c].i + call[c].CONCURRENCY >= Len(call[c].ids)
        \* within a batch the async functions advance without a delay
        /\ (call[c].pc = "delay" /\ call'[c].pc = "delay") =>
              task'[c] = task[c]

\* C17: the ids are processed in consecutive ascending batches; the check,
\* fetch or write of an id of the next batch starts only after every id of
\* the batch before has finished and the delay after it has elapsed, and
\* there is one delay per batch, none inside a batch.
C17_BatchesInOrder == []C17_BatchState /\ [][C17_BatchStep]_vars

\* The second batch of a call is running: its id is being fetched after
\* every id of the first batch was cached.
C17_Witness ==
    \E c \in Calls :
        /\ call[c].pc = "batch"
        /\ call[c].i = call[c].CONCURRENCY
        /\ \E id \in DOMAIN task[c] : task[c][id].pc = "fetch"
        /\ \A k \in 1..call[c].i : HasPokemon(call[c].ids[k])

-----------------------------------------------------------------------------
(* C18: fetchHisuiPokemon skips the entries that fail                      *)

C18_State ==
    \* the call throws for the type refresh or the dex request only
    /\ hisui.pc = "thrown" =>
          /\ hisui.result.cause.kind \in {"types", "dex"}
          /\ hisui.tasks = <<>>
    \* a failed entry leaves the call and the other entries running
    /\ (\E k \in DOMAIN hisui.tasks : hisui.tasks[k].pc = "caught") =>
          hisui.pc \in {"batch", "delay", "returned"}
    \* the call returns success, whatever became of the entries
    /\ hisui.pc = "returned" =>
          /\ hisui.result = [success |-> TRUE, message |-> "Hisui Pokemon cached"]
          /\ hisui.typeIdx = Len(TypeCatalog)
          /\ \A k \in DOMAIN hisui.tasks : HisuiTaskSettled(hisui.tasks[k])

C18_Step ==
    \* the failure of an entry changes that entry alone
    /\ \A k \in DOMAIN hisui.tasks :
          (hisui.tasks[k].pc # "caught" /\ k \in DOMAIN hisui'.tasks
              /\ hisui'.tasks[k].pc = "caught") =>
             /\ hisui'.pc = hisui.pc
             /\ hisui'.result = hisui.result
             /\ \A j \in DOMAIN hisui.tasks \ {k} :
                   hisui'.tasks[j] = hisui.tasks[j]
             /\ pokemon' = pokemon /\ pokemonSpecies' = pokemonSpecies
    \* every entry of the dex gets its turn: the batches follow one another
    \* whether or not their entries failed
    /\ (hisui.pc = "delay" /\ hisui'.pc # "delay") =>
          IF hisui.i + HISUI_CONCURRENCY < Len(hisui.entries)
          THEN /\ hisui'.pc = "batch"
               /\ DOMAIN hisui'.tasks =
                     {k \in 1..Len(hisui.entries) :
                         /\ hisui.i + HISUI_CONCURRENCY < k
                         /\ k <= hisui.i + 2 * HISUI_CONCURRENCY}
          ELSE hisui'.pc = "returned"
    /\ (hisui.pc = "batch" /\ hisui'.pc # "batch") =>
          /\ hisui'.pc = "delay"
          /\ \A k \in DOMAIN hisui.tasks : HisuiTaskSettled(hisui.tasks[k])

\* C18: in fetchHisuiPokemon the failure of an entry (its species request,
\* its form request or its cache write) is caught and skipped, the other
\* entries of its batch and of the later batches are still processed, and
\* the action returns success whenever the type refresh and the dex request
\* succeeded, even when every entry failed.
C18_EntryFailuresSkipped == []C18_State /\ [][C18_Step]_vars

\* The call returned success after an entry of the first batch failed: its
\* sibling in the batch and the entry of the second batch were cached.
C18_Witness ==
    /\ hisui.pc = "returned"
    /\ Len(hisui.entries) > HISUI_CONCURRENCY
    /\ hisui.tasks[Len(hisui.entries)].pc = "done"
    /\ HasPokemon(PokemonIdByName(rowlet))
    /\ HasPokemon(PokemonIdByName(growlitheHisui))
    /\ ~HasPokemon(PokemonIdByName(pikachu))

-----------------------------------------------------------------------------
(* C19: the type refresh comes first                                       *)

TypeRefreshDone(c) ==
    /\ call[c].typeIdx = Len(TypeCatalog)
    /\ \A k \in 1..Len(TypeCatalog) : HasType(TypeCatalog[k])

C19_State ==
    \A c \in Calls :
        \* while the refresh runs no id has been checked, fetched or written
        /\ call[c].pc \in {"types", "cacheType"} =>
              /\ call[c].ids # <<>>
              /\ task[c] = <<>>
              /\ call[c].fetched = {}
        \* the ids are processed after the whole catalog was cached
        /\ (call[c].pc \in {"batch", "delay"}
               \/ (call[c].pc = "returned" /\ call[c].ids # <<>>)) =>
              TypeRefreshDone(c)
        /\ (call[c].pc = "thrown" /\ call[c].result.cause.kind # "types") =>
              TypeRefreshDone(c)
        \* a failed refresh ends the call with nothing fetched
        /\ (call[c].pc = "thrown" /\ call[c].result.cause.kind = "types") =>
              /\ task[c] = <<>>
              /\ call[c].fetched = {}
              /\ call[c].typeIdx = 0

C19_Step ==
    \A c \in Calls :
        /\ call[c].pc \in {"types", "cacheType"} =>
              /\ pokemon' = pokemon
              /\ pokemonSpecies' = pokemonSpecies
        /\ (task[c] = <<>> /\ task'[c] # <<>>) =>
              /\ call[c].pc \in {"types", "cacheType"}
              /\ call'[c].typeIdx = Len(TypeCatalog)
              /\ \A k \in 1..Len(TypeCatalog) :
                    \E j \in 1..Len(pokemonTypes') :
                        pokemonTypes'[j].name = TypeCatalog[k]

\* C19: a call with a non-empty id list refreshes the whole type table
\* before the first check, fetch or write of an id, also when every id is
\* cached already; when the refresh fails the call ends before any pokemon
\* is fetched.
C19_TypesFirst == []C19_State /\ [][C19_Step]_vars

\* A call whose ids were all cached when it started has returned: it
\* fetched nothing and refreshed the type table.
C19_Witness ==
    \E c \in Calls :
        /\ call[c].pc = "returned"
        /\ call[c].ids # <<>>
        /\ \A k \in 1..Len(call[c].ids) :
              call[c].ids[k] \in CachedIds(call[c].atStart)
        /\ call[c].fetched = {}
        /\ call[c].typeIdx = Len(TypeCatalog)

-----------------------------------------------------------------------------
(* C20: cacheType is an upsert by normalized name                          *)

\* The lowercased, trimmed form of each spelling the calls use.
NormalizedNames ==
    {<<fire, fire>>, <<<<"F","i","r","e">>, fire>>,
     <<<<" ","F","I","R","E"," ">>, fire>>,
     <<electric, electric>>,
     <<<<"E","l","e","c","t","r","i","c"," ">>, electric>>,
     <<stellar, stellar>>}

Normalized(name) == (CHOOSE p \in NormalizedNames : p[1] = name)[2]

RowsNamed(ty, name) == {k \in 1..Len(ty) : ty[k].name = name}

\* one record per name, and every name is the normal form of a spelling
C20_State ==
    /\ \A j, k \in 1..Len(pokemonTypes) :
          pokemonTypes[j].name = pokemonTypes[k].name => j = k
    /\ \A k \in 1..Len(pokemonTypes) :
          \E p \in NormalizedNames : pokemonTypes[k].name = p[2]

\* a call leaves exactly one record of its normalized name, with the call's
\* colour, and leaves the records of the other names as they were; the same
\* call again would change nothing
C20_Step ==
    Served("cacheType") =>
        LET name  == Normalized(lastOp'.args.name)
            color == lastOp'.args.color
        IN  /\ Cardinality(RowsNamed(pokemonTypes', name)) = 1
            /\ \A k \in RowsNamed(pokemonTypes', name) :
                  pokemonTypes'[k].color = color
            /\ \A k \in 1..Len(pokemonTypes) :
                  pokemonTypes[k].name # name =>
                     /\ k <= Len(pokemonTypes')
                     /\ pokemonTypes'[k] = pokemonTypes[k]
            /\ Len(pokemonTypes') =
                  Len(pokemonTypes)
                  + (IF RowsNamed(pokemonTypes, name) = {} THEN 1 ELSE 0)
            /\ cacheType(pokemonTypes', lastOp'.args.name, color) = pokemonTypes'

\* C20: cacheType is an upsert keyed by the lowercased, trimmed name: from
\* the empty table, after any sequence of calls there is exactly one record
\* per distinct normalized name, its colour is that of the latest call for
\* the name, and repeating a call changes nothing.
C20_TypeUpsert == []C20_State /\ [][C20_Step]_vars

\* A call in another spelling and with another colour of a name that has a
\* record: the record took the new colour and no second one was added.
C20_Witness ==
    /\ lastOp # NoOp
    /\ lastOp.op = "cacheType"
    /\ lastOp.args.name = <<" ","F","I","R","E"," ">>
    /\ lastOp.args.color = FALLBACK_COLOR
    /\ Len(pokemonTypes) = 2
    /\ pokemonTypes[1] = [name |-> fire, color |-> FALLBACK_COLOR]

-----------------------------------------------------------------------------
(* C21: the generation filter of list                                      *)

StoredIds(S) == {pokemon[k].pokemonId : k \in S}

\* The ids list(generation) starts from, by the three cases of the claim.
GenerationIds(args) ==
    IF "generation" \in DOMAIN args /\ args.generation > 0
    THEN LET Stored == {k \in 1..Len(pokemon) :
                           pokemon[k].generation = args.generation}
         IN  IF Stored # {} THEN StoredIds(Stored)
             ELSE IF args.generation \in 1..9
             THEN StoredIds({k \in 1..Len(pokemon) :
                     /\ pokemon[k].pokemonId >= GEN_RANGES(args.generation).start
                     /\ pokemon[k].pokemonId <= GEN_RANGES(args.generation).end})
             ELSE {}
    ELSE StoredIds(1..Len(pokemon))

WithoutGeneration(args) == [f \in DOMAIN args \ {"generation"} |-> args[f]]

-----------------------------------------------------------------------------
(* C22: duplicate rows of an id                                            *)

Duplicated(id) == Cardinality(RowsById(pokemon, id)) > 1

\* the first row of the id in creation order
FirstStored(id) == pokemon[CHOOSE k \in RowsById(pokemon, id) :
                              \A j \in RowsById(pokemon, id) : k <= j]

\* the caller's favorites whose pokemon is cached, in the order they were added
CachedFavorites(caller) ==
    SelectSeq(favorites,
              LAMBDA f : f.userId = caller /\ RowsById(pokemon, f.pokemonId) # {})

\* C22: when the store holds several rows of an id, list returns the id at
\* most once, counts it once in total and returns its first row in creation
\* order; getById and getFavorites take the first row too.
C22_FirstRowWins ==
    /\ lastOp.op = "list" =>
          LET r == lastOp.result IN
          /\ \A i, j \in 1..Len(r.pokemon) :
                r.pokemon[i].pokemonId = r.pokemon[j].pokemonId => i = j
          /\ \A i \in 1..Len(r.pokemon) :
                r.pokemon[i] = FirstStored(r.pokemon[i].pokemonId)
          /\ r.total <= Cardinality({pokemon[k].pokemonId : k \in 1..Len(pokemon)})
          /\ Unfiltered(lastOp.args) =>
                r.total = Cardinality({pokemon[k].pokemonId : k \in 1..Len(pokemon)})
    /\ lastOp.op = "getById" =>
          IF RowsById(pokemon, lastOp.pokemonId) = {}
          THEN lastOp.result = NULL
          ELSE /\ lastOp.result # NULL
               /\ lastOp.result.pokemon = FirstStored(lastOp.pokemonId)
               /\ \A k \in 1..Len(pokemonSpecies) :
                     (/\ pokemonSpecies[k].pokemonId = lastOp.pokemonId
                      /\ \A j \in 1..(k - 1) :
                            pokemonSpecies[j].pokemonId # lastOp.pokemonId)
                     => lastOp.result.species = pokemonSpecies[k]
    /\ (lastOp.op = "getFavorites" /\ lastOp.caller \in Users) =>
          /\ Len(lastOp.result) = Len(CachedFavorites(lastOp.caller))
          /\ \A i \in 1..Len(lastOp.result) :
                lastOp.result[i] =
                   FirstStored(CachedFavorites(lastOp.caller)[i].pokemonId)

\* list has answered from a store with two rows of id 25: one row of the id,
\* the one created first, and a total that counts the id once.
C22_Witness ==
    /\ lastOp.op = "list"
    /\ Unfiltered(lastOp.args)
    /\ ListOffset(lastOp.args) = 0
    /\ Duplicated(25)
    /\ pokemon[1].pokemonId # 25
    /\ pokemon[Len(pokemon)].height # FirstStored(25).height
    /\ lastOp.result.total = 2
    /\ \E i \in 1..Len(lastOp.result.pokemon) :
          lastOp.result.pokemon[i] = FirstStored(25)

-----------------------------------------------------------------------------
(* C23: the public API does not write the cache                            *)

PublicOps ==
    {"list", "getById", "getTypes", "getFavorites", "addToFavorites",
     "removeFromFavorites", "updateProfile"}

\* C23: the pokemon, species and type tables are written by cachePokemon
\* and cacheType only: list, getById, getTypes, getFavorites,
\* addToFavorites, removeFromFavorites and updateProfile leave the three
\* tables as they were.
C23_CacheFrame ==
    [][/\ (\E op \in PublicOps : Served(op)) =>
             /\ pokemon' = pokemon
             /\ pokemonSpecies' = pokemonSpecies
             /\ pokemonTypes' = pokemonTypes
       /\ (pokemon' # pokemon \/ pokemonSpecies' # pokemonSpecies) =>
             lastOp' = lastOp
       /\ pokemonTypes' # pokemonTypes => Served("cacheType")]_vars

\* A favorite was added while the three tables held rows.
C23_Witness ==
    /\ lastOp.op = "addToFavorites"
    /\ ~Failed(lastOp.result)
    /\ pokemon # <<>>
    /\ pokemonSpecies # <<>>
    /\ pokemonTypes # <<>>
    /\ favorites # <<>>

-----------------------------------------------------------------------------
(* C24: every call settles                                                 *)

\* C24: when every upstream request and every store call responds, a call
\* of fetchAndCachePokemon eventually returns success or throws; it does
\* not stop in or between its batches.
C24_CallSettles ==
    \A c \in Calls : (call[c].pc # "idle") ~> Settled(c)

\* A call of more than one batch has returned.
C24_Witness ==
    \E c \in Calls :
        /\ call[c].pc = "returned"
        /\ Len(call[c].ids) > call[c].CONCURRENCY
        /\ call[c].CONCURRENCY > 0
        /\ call[c].fetched # {}

-----------------------------------------------------------------------------
(* Properties of the stored generation (SpecHisui) *)

\* the row's id lies in the id range of the row's stored generation
InOwnRange(row) ==
    /\ GEN_RANGES(row.generation) # NULL
    /\ GEN_RANGES(row.generation).start <= row.pokemonId
    /\ row.pokemonId <= GEN_RANGES(row.generation).end

\* C26: every pokemon and species record written by cachePokemon, whether
\* on behalf of fetchAndCachePokemon or of fetchHisuiPokemon, has a stored
\* generation whose id range contains the record's id, and so for every
\* generation the by_generation index and the id range select the same
\* rows of the pokemon table.
C26_AsStated ==
    /\ \A i \in 1..Len(pokemon) : InOwnRange(pokemon[i])
    /\ \A i \in 1..Len(pokemonSpecies) : InOwnRange(pokemonSpecies[i])
    /\ \A g \in 1..9 :
          Range(ByGeneration(pokemon, g))
              = Range(ByIdRange(pokemon, GEN_RANGES(g)))

-----------------------------------------------------------------------------
(* Properties of the pages of list (SpecList) *)

\* the arguments of the k-th page of the request args: the same filters and
\* limit, at offset k * limit
PageArgs(args, k) ==
    [f \in DOMAIN args \cup {"offset"} |->
        IF f = "offset" THEN k * ListLimit(args) ELSE args[f]]

\* the response for the k-th page, from the store as it is
PageAt(args, k) == list(pokemon, PageArgs(args, k))

PageIds(args, k) == {row.pokemonId : row \in Range(PageAt(args, k).pokemon)}

\* the pages 0..k, one after the other
RECURSIVE PagesUpTo(_, _)
PagesUpTo(args, k) ==
    IF k < 0 THEN <<>>
    ELSE PagesUpTo(args, k - 1) \o PageAt(args, k).pokemon

\* the page holding the last record of the filtered list (page 0 of an
\* empty list)
LastPage(args) ==
    LET total == Len(ListResults(pokemon, args))
    IN  IF total = 0 THEN 0 ELSE (total - 1) \div ListLimit(args)

\* C27: for a list request at an offset that is a multiple of its limit
\* L > 0, with the store and the filters fixed, the pages at offsets 0, L,
\* 2L, ... (the served page among them) are pairwise disjoint, their
\* concatenation is the whole filtered list, which is strictly ascending by
\* id, every page reports the same total, and hasMore is false exactly on
\* the pages at or after the one holding the last record.
C27_PagesPartition ==
    (lastOp.op = "list" /\ ListOffset(lastOp.args) % ListLimit(lastOp.args) = 0)
    =>
    LET a    == lastOp.args
        full == ListResults(pokemon, a)
        K    == LastPage(a) + 1
    IN  /\ lastOp.result = PageAt(a, ListOffset(a) \div ListLimit(a))
        /\ \A j \in 0..K, k \in 0..K :
              j < k => PageIds(a, j) \cap PageIds(a, k) = {}
        /\ PagesUpTo(a, K) = full
        /\ \A i \in 1..Len(full), j \in 1..Len(full) :
              i < j => full[i].pokemonId < full[j].pokemonId
        /\ \A k \in 0..K : PageAt(a, k).total = Len(full)
        /\ \A k \in 0..K : ~PageAt(a, k).hasMore <=> k >= LastPage(a)

\* The second of two full pages of two records each has been served: it
\* ends with the last record and reports no more.
C27_Witness ==
    /\ lastOp.op = "list"
    /\ ListLimit(lastOp.args) = 2
    /\ ListOffset(lastOp.args) = 2
    /\ lastOp.result.total = 4
    /\ Len(lastOp.result.pokemon) = 2
    /\ ~lastOp.result.hasMore
    /\ PageAt(lastOp.args, 0).hasMore

-----------------------------------------------------------------------------
(* C30: a failing id ends the call at once and leaves its siblings running *)

\* every row of t is still in u, at its position and with its id
RowsKept(t, u) ==
    /\ Len(u) >= Len(t)
    /\ \A k \in 1..Len(t) : u[k].pokemonId = t[k].pokemonId

C30_State ==
    \* an async function that holds its payload can write it, whatever has
    \* become of its call
    \A c \in Calls : \A id \in DOMAIN task[c] :
        task[c][id].pc = "write" => ENABLED TaskWrite(c, id)

C30_Step ==
    \A c \in Calls :
        \* the first failure of a batch throws in the same step, whatever
        \* the siblings are doing, and touches neither them nor the store
        /\ \A id \in DOMAIN task[c] :
              (/\ call[c].pc = "batch"
               /\ task[c][id].pc = "fetch"
               /\ task'[c][id].pc = "failed") =>
                  /\ call'[c].pc = "thrown"
                  /\ \A s \in DOMAIN task[c] \ {id} :
                        task'[c][s] = task[c][s]
                  /\ UNCHANGED cacheVars
        \* a call that has thrown starts no batch
        /\ call[c].pc = "thrown" =>
              /\ \/ /\ call'[c].pc = "thrown"
                    /\ call'[c].i = call[c].i
                    /\ call'[c].result = call[c].result
                 \/ call'[c] = IdleCall
              /\ DOMAIN task'[c] = DOMAIN task[c]
        \* no step takes a record back
        /\ RowsKept(pokemon, pokemon')
        /\ RowsKept(pokemonSpecies, pokemonSpecies')
        \* the only steps of a thrown call's async functions are their own:
        \* a sibling goes on to its write
        /\ \A s \in DOMAIN task[c] :
              (/\ call[c].pc = "thrown"
               /\ task[c][s].pc = "write"
               /\ task'[c][s].pc = "done") =>
                  /\ HasPokemon(s)'
                  /\ HasSpecies(s)'

\* C30: when one id of a batch fails, fetchAndCachePokemon throws in that
\* step, without waiting for the other ids of the batch; it starts no
\* later batch; no record written before is removed; and the sibling
\* operations in flight are not cancelled, so that one holding its payload
\* can still write it after the call has thrown.
C30_FailFast == []C30_State /\ [][C30_Step]_vars

\* A call has thrown for one id of its batch while a sibling, whose two
\* responses arrived, has its record still to write.
C30_Witness ==
    \E c \in Calls :
        /\ call[c].pc = "thrown"
        /\ \E f \in DOMAIN task[c], s \in DOMAIN task[c] :
              /\ task[c][f].pc = "failed"
              /\ task[c][f].error = call[c].result.cause
              /\ task[c][s].pc = "write"
              /\ ~HasPokemon(s)

-----------------------------------------------------------------------------
(* C25: the debounce of the search box                                     *)

C25_State ==
    \* a call of onSearch carries the text of the box, which had not
    \* changed for DEBOUNCE_MS
    /\ lastOp.op = "onSearch" =>
          /\ lastOp.query = lastOp.localSearch
          /\ lastOp.unchangedMs >= DEBOUNCE_MS
    \* at most one call is pending, and it is for the text of the box
    /\ Cardinality(search.timers) <= 1
    /\ \A t \in search.timers :
          /\ t.text = search.localSearch
          /\ t.remaining + search.unchangedMs >= DEBOUNCE_MS

C25_Step ==
    \* a change of the text cancels the pending timer and starts a new one
    search'.localSearch # search.localSearch =>
        /\ search'.timers = {DebounceTimer(search'.localSearch)}
        /\ search'.unchangedMs = 0

\* C25: onSearch is called with a text only after the text has stayed
\* unchanged for 300 ms; each change of the text cancels the pending timer
\* and starts a new one, so at most one call is pending, it is for the
\* current text, and a text replaced within 300 ms is never sent.
C25_Debounce == []C25_State /\ [][C25_Step]_vars

\* onSearch was called for an earlier text; the text has been changed
\* since, less than 300 ms ago, and the one pending timer is for the new
\* text, with part of its delay gone.
C25_Witness ==
    /\ lastOp.op = "onSearch"
    /\ lastOp.query = <<"2">>
    /\ page.searchQuery = <<"2">>
    /\ search.localSearch = <<"2","5">>
    /\ search.timers = {[text |-> <<"2","5">>,
                         remaining |-> DEBOUNCE_MS - search.unchangedMs]}
    /\ search.unchangedMs > 0
    /\ search.unchangedMs < DEBOUNCE_MS

-----------------------------------------------------------------------------
(* C28: the accumulated items of the Pokedex page                          *)

\* the ids of the rows of s, in order
IdsOf(s) == [i \in 1..Len(s) |-> s[i].pokemonId]

\* the page has received the result for its arguments from the store as
\* it is
ResultCurrent == page.pokemonData = list(pokemon, QueryArgs(page))

\* the result list for the page's search and filters
SelectedResults == ListResults(pokemon, QueryArgs(page))

\* C28: whenever the page holds the current result of its query, items has
\* no duplicate id and its ids are the first ids of the result list for
\* the selected search and filters, in ascending order and without gaps.
C28_AsStated ==
    ResultCurrent =>
        /\ \A i \in 1..Len(page.items), j \in 1..Len(page.items) :
              i # j => page.items[i].pokemonId # page.items[j].pokemonId
        /\ Len(page.items) <= Len(SelectedResults)
        /\ IdsOf(page.items)
              = SubSeq(IdsOf(SelectedResults), 1, Len(page.items))

-----------------------------------------------------------------------------
(* C29: isRefreshing during a data refresh                                 *)

\* the fetch actions that have been started and have not settled
Fetching == {c \in Calls : call[c].pc \notin {"idle", "returned", "thrown"}}

\* C29: isRefreshing is true for as long as a fetchAndCachePokemon action
\* started by the page's refresh has not settled, and the client never has
\* two of them in flight.
C29_AsStated ==
    /\ Fetching # {} => page.isRefreshing
    /\ Cardinality(Fetching) <= 1
=============================================================================
